---- MODULE Spec2Model ----
(***************************************************************************)
(* Model of the rustplus-ts client (alexemanuelol/rustplus-ts).            *)
(*                                                                         *)
(* Token balances are JavaScript numbers; the costs and rates of the       *)
(* source are multiples of 0.01, so every balance is kept here as an       *)
(* integer number of hundredths of a token (TokenScale).                   *)
(***************************************************************************)
EXTENDS Integers, Sequences, FiniteSets, TLC

(***************************************************************************)
(* Program constants (class RustPlus, static readonly fields).             *)
(***************************************************************************)
TokenScale == 100

MAX_REQUESTS_PER_IP_ADDRESS == 50 * TokenScale
REQUESTS_PER_IP_REPLENISH_RATE == 15 * TokenScale
MAX_REQUESTS_PER_PLAYER_ID == 25 * TokenScale
REQUESTS_PER_PLAYER_ID_REPLENISH_RATE == 3 * TokenScale
MAX_REQUESTS_FOR_SERVER_PAIRING == 5 * TokenScale
REQUESTS_FOR_SERVER_PAIRING_REPLENISH_RATE == 10

REQUEST_GET_INFO_TOKEN_COST == 1 * TokenScale
REQUEST_GET_MAP_TOKEN_COST == 5 * TokenScale
REQUEST_SEND_TEAM_MESSAGE_TOKEN_COST == 2 * TokenScale
REQUEST_GET_NEXUS_AUTH_TOKEN_COST == 1 * TokenScale
REQUEST_CAMERA_INPUT_TOKEN_COST == 1

ConsumeTimeoutMs == 10000
REQUEST_GET_INFO_TIMEOUT_MS == 10000

(***************************************************************************)
(* Bounds of the model.                                                    *)
(***************************************************************************)
MaxCalls == 2                 \* consumeTokens calls suspended at the same time
ClockStepMs == 5000           \* granularity of the observed Date.now()
MaxPendingDisconnects == 2    \* disconnect() calls suspended at the same time
MaxLeakedIntervals == 1       \* interval timers left running without a handle
MaxRequests == 3              \* requests issued in one behaviour
MaxFrames == 12               \* camera frames accepted by one subscription
MaxRendering == 2             \* renderCameraFrame calls awaited at the same time
MaxCameraCalls == 1           \* subscribe() calls, and unsubscribe() calls,
                              \* suspended at the same time
MaxRenders == 2               \* renderCameraFrame calls in one behaviour
MaxRayLength == 4             \* bytes of a frame of arbitrary bytes
MaxTriples == 2               \* samples of a frame of encoded samples
MaxWidth == 3                 \* width of a camera
MaxHeight == 3                \* height of a camera

Calls == 1..MaxCalls
RequestIds == 1..MaxRequests

(* The callers (steam ids) and the API operations that are explored. *)
PlayerIds == {"player1", "player2"}
Requests == {"getInfo", "getMap"}
WaitPlayerIds == {"player1"}
WaitRequests == {"getMap"}

TokenCost(op) ==
    CASE op = "getInfo" -> REQUEST_GET_INFO_TOKEN_COST
      [] op = "getMap" -> REQUEST_GET_MAP_TOKEN_COST
      [] op = "sendTeamMessage" -> REQUEST_SEND_TEAM_MESSAGE_TOKEN_COST
      [] op = "getNexusAuth" -> REQUEST_GET_NEXUS_AUTH_TOKEN_COST
      [] op = "cameraInput" -> REQUEST_CAMERA_INPUT_TOKEN_COST

(* enum ConsumeTokensError *)
ConsumeTokensError ==
    {"NoError", "Unknown", "NotEnoughConnectionTokens",
     "NotEnoughPlayerIdTokens", "WaitReplenishTimeout"}

VARIABLES
    tokens,             \* this.tokens: connection, playerId map, serverPairing
    calls,              \* consumeTokens invocations suspended in delay(100)
    returned,           \* what the consumeTokens call that returned in this step
                        \* resolved with, "none" if no call returned
    ws,                 \* this.ws: "null", or the readyState of the WebSocket
    replenishInterval,  \* this.replenishInterval: "null", "active" or "cleared"
    leakedIntervals,    \* running interval timers whose handle was overwritten
    pendingDisconnects, \* disconnect() calls suspended in delay(100)
    seq,                \* this.seq
    seqCallbacks,       \* this.seqCallbacks: sequence number -> the request
                        \* whose callback is stored under it
    reqs,               \* the requests issued: their sequence number, timer
                        \* and how often they were answered
    wire,               \* sequence numbers the server has still to answer on
                        \* the current WebSocket
    emitted,            \* the events emitted by the last step of the connection,
                        \* of a request or of the camera, in order
    camera,             \* the fields of the Camera listening to this client
    api                 \* one getInfoAsync operation and the time since its call

tokenVars == <<tokens, calls, returned>>
connVars == <<ws, replenishInterval, leakedIntervals, pendingDisconnects>>
reqVars == <<seq, seqCallbacks, reqs, wire>>
appVars == <<emitted, camera, api>>
vars == <<tokens, calls, returned, ws, replenishInterval, leakedIntervals,
          pendingDisconnects, seq, seqCallbacks, reqs, wire, emitted, camera,
          api>>

Min(a, b) == IF a <= b THEN a ELSE b

IdleCall == [pc |-> "idle", playerId |-> "", op |-> "", elapsed |-> 0]

(* getInfoAsync: where the operation is (idle, tokens: suspended in         *)
(* consumeTokens in slot c, granted, request: awaiting sendRequestAsync of *)
(* request r, done), how long consumeTokens took (waited) and the time     *)
(* since sendRequestAsync was called (timer).                              *)
IdleApi == [pc |-> "idle", c |-> 0, r |-> 0, waited |-> 0, timer |-> 0]

(* No timer of the model is followed beyond this time. *)
ApiHorizonMs == ConsumeTimeoutMs + REQUEST_GET_INFO_TIMEOUT_MS

(* A step in which no consumeTokens call takes part. *)
NoTokenCall == calls' = calls /\ returned' = "none"

(***************************************************************************)
(* Replenishment.                                                          *)
(***************************************************************************)
ReplenishNoClamp(balance, rate, max) == balance + rate

Replenish(balance, rate, max) ==
    IF balance < max THEN Min(balance + rate, max) ELSE balance

replenishConnectionTokens(tk) ==
    [tk EXCEPT !.connection =
        Replenish(@, REQUESTS_PER_IP_REPLENISH_RATE, MAX_REQUESTS_PER_IP_ADDRESS)]

replenishPlayerIdTokens(tk) ==
    [tk EXCEPT !.playerId =
        [p \in DOMAIN tk.playerId |->
            Replenish(tk.playerId[p], REQUESTS_PER_PLAYER_ID_REPLENISH_RATE,
                      MAX_REQUESTS_PER_PLAYER_ID)]]

replenishServerPairingTokens(tk) ==
    [tk EXCEPT !.serverPairing =
        Replenish(@, REQUESTS_FOR_SERVER_PAIRING_REPLENISH_RATE,
                  MAX_REQUESTS_FOR_SERVER_PAIRING)]

(* One firing of a setInterval(() => this.replenishTask(), 1000) timer. *)
replenishTask ==
    /\ replenishInterval = "active" \/ leakedIntervals > 0
    /\ tokens' = replenishServerPairingTokens(
                    replenishPlayerIdTokens(replenishConnectionTokens(tokens)))
    /\ NoTokenCall
    /\ UNCHANGED <<connVars, reqVars, appVars>>

(***************************************************************************)
(* consumeTokens.                                                          *)
(***************************************************************************)
InitPlayerIdEmpty(tk, playerId) ==
    IF playerId \in DOMAIN tk.playerId
    THEN tk
    ELSE [tk EXCEPT !.playerId =
            [p \in (DOMAIN tk.playerId) \cup {playerId} |->
                IF p = playerId THEN 0 ELSE tk.playerId[p]]]

InitPlayerId(tk, playerId) ==
    IF playerId \in DOMAIN tk.playerId
    THEN tk
    ELSE [tk EXCEPT !.playerId =
            [p \in (DOMAIN tk.playerId) \cup {playerId} |->
                IF p = playerId THEN MAX_REQUESTS_PER_PLAYER_ID
                ELSE tk.playerId[p]]]

hasEnoughConnectionTokens(tk, playerId, n) == tk.connection >= n

hasEnoughTokens(tk, playerId, n) ==
    tk.connection >= n /\ tk.playerId[playerId] >= n

NonBlockingErrorConnectionFirst(tk, playerId, n) ==
    IF tk.connection < n THEN "NotEnoughConnectionTokens"
    ELSE IF tk.playerId[playerId] < n THEN "NotEnoughPlayerIdTokens"
    ELSE "Unknown"

(* The branch taken when !waitForReplenish && !hasEnoughTokens(). *)
NonBlockingError(tk, playerId, n) ==
    IF tk.connection >= n THEN "NotEnoughConnectionTokens"
    ELSE IF tk.playerId[playerId] >= n THEN "NotEnoughPlayerIdTokens"
    ELSE "Unknown"

DebitConnectionOnly(tk, playerId, n) == [tk EXCEPT !.connection = @ - n]

Debit(tk, playerId, n) ==
    [tk EXCEPT !.connection = @ - n, !.playerId[playerId] = @ - n]

WaitLoopDebitOnTimeout(tk, playerId, n, elapsed, timeoutMs) ==
    IF elapsed >= timeoutMs /\ ~hasEnoughTokens(tk, playerId, n)
    THEN [tokens |-> Debit(tk, playerId, n), result |-> "WaitReplenishTimeout"]
    ELSE IF hasEnoughTokens(tk, playerId, n)
         THEN [tokens |-> Debit(tk, playerId, n), result |-> "NoError"]
         ELSE [tokens |-> tk, result |-> "delay"]

WaitLoopNoTimeout(tk, playerId, n, elapsed, timeoutMs) ==
    IF hasEnoughTokens(tk, playerId, n)
    THEN [tokens |-> Debit(tk, playerId, n), result |-> "NoError"]
    ELSE [tokens |-> tk, result |-> "delay"]

(* One evaluation of the while loop and of what follows it: the call is    *)
(* granted, or it times out, or it suspends in delay(100).                 *)
WaitLoop(tk, playerId, n, elapsed, timeoutMs) ==
    IF hasEnoughTokens(tk, playerId, n)
    THEN [tokens |-> Debit(tk, playerId, n), result |-> "NoError"]
    ELSE IF elapsed >= timeoutMs
         THEN [tokens |-> tk, result |-> "WaitReplenishTimeout"]
         ELSE [tokens |-> tk, result |-> "delay"]

FreeCalls == {c \in Calls : calls[c].pc = "idle"}
FreeCall == CHOOSE c \in FreeCalls : \A d \in FreeCalls : c <= d

(* consumeTokens up to its first await or its return: the ledger it       *)
(* leaves and its result, "delay" when it suspends in delay(100).          *)
consumeTokensCall(tk0, playerId, n, waitForReplenish, timeoutMs) ==
    LET tk == InitPlayerId(tk0, playerId)
    IN IF ~waitForReplenish /\ ~hasEnoughTokens(tk, playerId, n)
       THEN [tokens |-> tk, result |-> NonBlockingError(tk, playerId, n)]
       ELSE WaitLoop(tk, playerId, n, 0, timeoutMs)

(* A call of consumeTokens (made by an API operation op with its token     *)
(* cost), up to its first await or its return.                             *)
consumeTokens(playerId, op, waitForReplenish) ==
    LET r == consumeTokensCall(tokens, playerId, TokenCost(op),
                               waitForReplenish, ConsumeTimeoutMs)
    IN /\ tokens' = r.tokens
       /\ IF r.result = "delay"
          THEN /\ FreeCalls # {}
               /\ calls' = [calls EXCEPT ![FreeCall] =
                     [pc |-> "delay", playerId |-> playerId,
                      op |-> op, elapsed |-> 0]]
               /\ returned' = "none"
          ELSE /\ calls' = calls
               /\ returned' = r.result
       /\ UNCHANGED <<connVars, reqVars, appVars>>

(* What getInfoAsync does with the result of consumeTokens. *)
afterConsumeTokens(a, result, elapsed) ==
    [a EXCEPT !.pc = IF result = "NoError" THEN "granted" ELSE "done",
              !.c = 0, !.waited = elapsed]

(* The delay(100) of a suspended call expires and the loop runs again. *)
consumeTokensResume(c) ==
    /\ calls[c].pc = "delay"
    /\ LET r == WaitLoop(tokens, calls[c].playerId, TokenCost(calls[c].op),
                         calls[c].elapsed, ConsumeTimeoutMs)
       IN /\ tokens' = r.tokens
          /\ IF r.result = "delay"
             THEN NoTokenCall /\ api' = api
             ELSE /\ calls' = [calls EXCEPT ![c] = IdleCall]
                  /\ returned' = r.result
                  /\ api' = IF api.pc = "tokens" /\ api.c = c
                            THEN afterConsumeTokens(api, r.result,
                                                    calls[c].elapsed)
                            ELSE api
    /\ UNCHANGED <<connVars, reqVars, emitted, camera>>

(* Whether the timer armed by the sendRequestAsync of getInfoAsync is due. *)
ApiTimerArmed == api.pc = "request" /\ reqs[api.r].timer = "armed"

(* Date.now() advances: every suspended call sees more elapsed time, and   *)
(* so does the timer of getInfoAsync, which fires when it is due.          *)
timePasses ==
    /\ \/ \E c \in Calls : calls[c].pc = "delay" /\ calls[c].elapsed < ConsumeTimeoutMs
       \/ api.pc = "request" /\ api.timer < ApiHorizonMs
    /\ ApiTimerArmed => api.timer < REQUEST_GET_INFO_TIMEOUT_MS
    /\ calls' = [c \in Calls |->
                    IF calls[c].pc = "delay"
                    THEN [calls[c] EXCEPT !.elapsed =
                            Min(@ + ClockStepMs, ConsumeTimeoutMs)]
                    ELSE calls[c]]
    /\ api' = IF api.pc = "request"
              THEN [api EXCEPT !.timer =
                        Min(@ + ClockStepMs,
                            IF ApiTimerArmed THEN REQUEST_GET_INFO_TIMEOUT_MS
                            ELSE ApiHorizonMs)]
              ELSE api
    /\ returned' = "none"
    /\ UNCHANGED <<tokens, connVars, reqVars, emitted, camera>>

(***************************************************************************)
(* Camera (camera.ts): its fields and its listeners on the client.         *)
(* received and shifted count the frames pushed and the frames shifted out *)
(* since cameraRays was last set to []; a frame is named by its number in  *)
(* that count.  cut records that 'disconnected' fired on a subscribed      *)
(* camera and no subscribe() has succeeded since.                          *)
(***************************************************************************)
CameraWindow == 10

(* No renderCameraFrame() has run: render holds what the last run was     *)
(* given and did (partners: the numbers its shuffle drew), tables the      *)
(* sample-position table of every run so far.                              *)
NoRender ==
    [called |-> 0, width |-> 0, height |-> 0, frames |-> <<>>,
     samplePositionBuffer |-> <<>>, state |-> <<0, 0>>, partners |-> <<>>,
     decoded |-> <<>>,
     output |-> <<>>, raised |-> FALSE, tables |-> {}]

(* No zoom(), shoot() or reload() has been called: control holds the last  *)
(* such call, the buttons of the cameraInputAsync calls it made, what      *)
(* these resolved with and what the call itself resolved with.             *)
IdleControl ==
    [op |-> "none", pc |-> "idle", inputs |-> <<>>, results |-> <<>>,
     returned |-> "none"]

(* appResponseError is what getAppResponseError returned to the last       *)
(* subscribe(), "none" when subscribe() did not call it.                   *)
NewCamera ==
    [isSubscribed |-> FALSE, cameraRays |-> <<>>, cameraSubscribeInfo |-> "null",
     subscribing |-> 0, unsubscribing |-> 0, rendering |-> 0,
     received |-> 0, shifted |-> 0, cut |-> FALSE, render |-> NoRender,
     cameraType |-> "UNKNOWN", appResponseError |-> "none",
     control |-> IdleControl]

(* this.rustplus.isConnected() *)
isConnected(readyState) == readyState = "OPEN"

ClearCameraKeepsRays(cam) ==
    [cam EXCEPT !.isSubscribed = FALSE, !.cameraSubscribeInfo = "null",
                !.cameraType = "UNKNOWN"]

(* The assignments at the end of unsubscribe() and of a failed subscribe(). *)
ClearCamera(cam) ==
    [cam EXCEPT !.isSubscribed = FALSE, !.cameraRays = <<>>,
                !.cameraSubscribeInfo = "null", !.cameraType = "UNKNOWN",
                !.received = 0, !.shifted = 0]

unsubscribeAlwaysAwaits(cam, readyState) ==
    [camera |-> [cam EXCEPT !.unsubscribing = @ + 1],
     events |-> <<"unsubscribing">>]

(* unsubscribe() up to its await, or to its end when the client is not     *)
(* connected.                                                              *)
unsubscribe(cam, readyState) ==
    IF isConnected(readyState)
    THEN [camera |-> [cam EXCEPT !.unsubscribing = @ + 1],
          events |-> <<"unsubscribing">>]
    ELSE [camera |-> ClearCamera(cam),
          events |-> <<"unsubscribing", "unsubscribed">>]

(* The Camera's listener of the client's 'disconnected' event. *)
disconnectedListener(cam, readyState) ==
    IF cam.isSubscribed
    THEN LET u == unsubscribe(cam, readyState)
         IN [camera |-> [u.camera EXCEPT !.cut = TRUE], events |-> u.events]
    ELSE [camera |-> cam, events |-> <<>>]

(* this.emit('disconnected') of the client, with the Camera listening. *)
emitDisconnected(cam, readyState) ==
    LET l == disconnectedListener(cam, readyState)
    IN [camera |-> l.camera, events |-> <<"disconnected">> \o l.events]

messageListenerRendersWhenFull(cam, kind) ==
    IF cam.isSubscribed /\ kind = "cameraRays"
    THEN LET pushed == Append(cam.cameraRays, cam.received + 1)
         IN IF Len(pushed) >= CameraWindow
            THEN [cam EXCEPT !.cameraRays = Tail(pushed),
                             !.received = @ + 1, !.shifted = @ + 1,
                             !.rendering = @ + 1]
            ELSE [cam EXCEPT !.cameraRays = pushed, !.received = @ + 1]
    ELSE cam

messageListenerNoShift(cam, kind) ==
    IF cam.isSubscribed /\ kind = "cameraRays"
    THEN [cam EXCEPT !.cameraRays = Append(cam.cameraRays, cam.received + 1),
                     !.received = @ + 1]
    ELSE cam

(* The Camera's listener of the client's 'message' event, up to its await  *)
(* of renderCameraFrame().                                                 *)
messageListener(cam, kind) ==
    IF cam.isSubscribed /\ kind = "cameraRays"
    THEN LET pushed == Append(cam.cameraRays, cam.received + 1)
         IN IF Len(pushed) > CameraWindow
            THEN [cam EXCEPT !.cameraRays = Tail(pushed),
                             !.received = @ + 1, !.shifted = @ + 1,
                             !.rendering = @ + 1]
            ELSE [cam EXCEPT !.cameraRays = pushed, !.received = @ + 1]
    ELSE cam

(***************************************************************************)
(* renderCameraFrame (camera.ts).  A 32-bit word of IndexGenerator is the  *)
(* pair <<high, low>> of its 16-bit halves; undefined, which a read past   *)
(* the end of a typed array yields, is Undefined.                          *)
(***************************************************************************)
Undefined == -1

Half == 2 ^ 16

Word(e) == <<e \div Half, e % Half>>

RECURSIVE Xor16(_, _)
Xor16(a, b) ==
    IF a = 0 THEN b
    ELSE IF b = 0 THEN a
    ELSE 2 * Xor16(a \div 2, b \div 2) + ((a + b) % 2)

(* x ^ y *)
Xor(x, y) == <<Xor16(x[1], y[1]), Xor16(x[2], y[2])>>

(* (x << k) | 0, for k < 16 *)
ShiftLeft(x, k) ==
    LET cut == 2 ^ (16 - k)
    IN <<(x[1] % cut) * (2 ^ k) + (x[2] \div cut), (x[2] % cut) * (2 ^ k)>>

(* (x >>> k) | 0, for k >= 16 *)
ShiftRightUnsigned(x, k) == <<0, x[1] \div (2 ^ (k - 16))>>

(* The old state t of nextState() as the number it returns:                *)
(* t >= 0 ? t : 4294967295 + t - 1                                         *)
NonNegative(t) ==
    IF t[1] < 2 ^ 15 THEN t
    ELSE IF t[2] >= 2 THEN <<t[1], t[2] - 2>>
    ELSE <<t[1] - 1, t[2] + Half - 2>>

XorShiftLeft(e, k) == Xor(e, ShiftLeft(e, k))

XorShiftRight(e, k) == Xor(e, ShiftRightUnsigned(e, k))

(* IndexGenerator.nextState(): the new state and the number returned. *)
nextState(state) ==
    [state |-> XorShiftLeft(XorShiftRight(XorShiftLeft(state, 13), 17), 5),
     value |-> NonNegative(state)]

(* new IndexGenerator(e) *)
IndexGenerator(e) == nextState(Word(e)).state

(* k * 4294967295 <= value * e *)
Fits(value, e, k) ==
    value[1] * e + ((value[2] * e + k) \div Half) >= k * Half

(* ((value * e) / 4294967295) | 0 *)
Quotient(value, e) ==
    CHOOSE k \in 0..e : Fits(value, e, k) /\ ~Fits(value, e, k + 1)

Wrapped(e, t) == IF t < 0 THEN e + t - 1 ELSE t

nextIntOf(n, e) ==
    [state |-> n.state, value |-> Wrapped(e, Quotient(n.value, e))]

nextIntInclusive(state, e) ==
    [state |-> nextIntOf(nextState(state), e).state,
     value |-> nextIntOf(nextState(state), e).value + 1]

(* IndexGenerator.nextInt(e) *)
nextInt(state, e) == nextIntOf(nextState(state), e)

(* Reads and writes of an array, kept as the sequence of its elements:   *)
(* element index is the (index + 1)-th.  A read outside the array yields   *)
(* undefined, a write outside it is dropped, and the Int16Array            *)
(* samplePositionBuffer stores undefined as 0.                             *)
Get(buffer, index) ==
    IF index + 1 \in DOMAIN buffer THEN buffer[index + 1] ELSE Undefined

Set(buffer, index, value) ==
    IF index + 1 \in DOMAIN buffer
    THEN [buffer EXCEPT ![index + 1] = IF value = Undefined THEN 0 ELSE value]
    ELSE buffer

(* The samplePositionBuffer as it is populated: x and y of each position. *)
RECURSIVE populate(_, _, _)
populate(width, height, index) ==
    IF index >= 2 * width * height THEN <<>>
    ELSE <<(index \div 2) % width, (index \div 2) \div width>>
            \o populate(width, height, index + 2)

(* The pair at C and the pair at I of the buffer are swapped. *)
Swapped(buffer, C, I) ==
    Set(Set(Set(Set(buffer, I, Get(buffer, C)),
                I + 1, Get(buffer, C + 1)),
            C, Get(buffer, I)),
        C + 1, Get(buffer, I + 1))

(* partners collects the numbers drawn by nextInt, turn after turn. *)
SwapWith(g, n) ==
    [buffer |-> Swapped(g.buffer, 2 * g.R, 2 * n.value),
     state |-> n.state, R |-> g.R - 1,
     partners |-> Append(g.partners, n.value)]

(* One turn of the loop `for (let R = width * height - 1; R >= 1; R--)`:   *)
(* the pair at 2 * R is swapped with the pair at 2 * nextInt(R + 1).       *)
swap(g) == SwapWith(g, nextInt(g.state, g.R + 1))

RECURSIVE shuffle(_)
shuffle(g) == IF g.R < 1 THEN g ELSE shuffle(swap(g))

IndexGeneratorSeed == 1337

samplePositionsContinued(cam, width, height) ==
    shuffle([buffer |-> populate(width, height, 0),
             state |-> IF cam.render.called > 0 THEN cam.render.state
                       ELSE IndexGenerator(IndexGeneratorSeed),
             R |-> width * height - 1, partners |-> <<>>])

(* The sample-position table of a render, and the state its generator is   *)
(* left in.                                                                *)
samplePositions(cam, width, height) ==
    shuffle([buffer |-> populate(width, height, 0),
             state |-> IndexGenerator(IndexGeneratorSeed),
             R |-> width * height - 1, partners |-> <<>>])

(* rayData[index] of the Uint8Array rayData *)
ReadByte(rayData, index) ==
    IF index < Len(rayData) THEN rayData[index + 1] ELSE Undefined

(* The conversion of an operand of <<, >> and & : undefined becomes 0. *)
ToInt32(x) == IF x = Undefined THEN 0 ELSE x

LookbackIndexNoMask(t, r, i) ==
    IF i = Undefined THEN 0
    ELSE 3 * (t \div 128) + 5 * (r \div 16) + 7 * i

(* (3 * ((t / 128) | 0) + 5 * ((r / 16) | 0) + 7 * i) & 63, which is 0     *)
(* when i is undefined (NaN & 63).                                         *)
LookbackIndex(t, r, i) ==
    IF i = Undefined THEN 0
    ELSE (3 * (t \div 128) + 5 * (r \div 16) + 7 * i) % 64

NewDecoder ==
    [dataPointer |-> 0, rayLookback |-> [k \in 0..63 |-> <<0, 0, 0>>],
     samples |-> <<>>, lastRead |-> -1]

decodeSampleOneByte(rayData, d) ==
    LET dp == d.dataPointer
        n == ReadByte(rayData, dp)
    IN IF n = 255
       THEN LET l == ReadByte(rayData, dp + 1)
                o == ReadByte(rayData, dp + 2)
                s == ReadByte(rayData, dp + 3)
                t == ToInt32(l) * 4 + (ToInt32(o) \div 64)
                r == ToInt32(o) % 64
                i == s
            IN [dataPointer |-> dp + 4,
                rayLookback |-> [d.rayLookback EXCEPT
                                   ![LookbackIndex(t, r, i)] = <<t, r, i>>],
                samples |-> Append(d.samples, <<t, r, i>>),
                lastRead |-> dp + 3]
       ELSE LET c == (n \div 64) * 64
                y == d.rayLookback[n % 64]
            IN IF c = 0
               THEN [d EXCEPT !.dataPointer = dp + 1,
                              !.samples = Append(@, y),
                              !.lastRead = dp]
               ELSE IF c = 64
               THEN LET g == ReadByte(rayData, dp + 1)
                    IN [d EXCEPT !.dataPointer = dp + 2,
                          !.samples = Append(@, <<y[1] + ((g \div 8) - 15),
                                                  y[2] + ((g % 8) - 3), y[3]>>),
                          !.lastRead = dp + 1]
               ELSE IF c = 128
               THEN LET g == ReadByte(rayData, dp + 1)
                    IN [d EXCEPT !.dataPointer = dp + 2,
                          !.samples = Append(@, <<y[1] + (g - 127),
                                                  y[2], y[3]>>),
                          !.lastRead = dp + 1]
               ELSE LET b == ReadByte(rayData, dp + 1)
                        t == n * 4 + (ToInt32(b) \div 64)
                        r == ToInt32(b) % 64
                        i == n % 64
                    IN [dataPointer |-> dp + 2,
                        rayLookback |-> [d.rayLookback EXCEPT
                                   ![LookbackIndex(t, r, i)] = <<t, r, i>>],
                        samples |-> Append(d.samples, <<t, r, i>>),
                        lastRead |-> dp + 1]

(* One turn of the `while (true)` loop after its test: a sample is decoded *)
(* from the bytes at dataPointer; lastRead is the last index read.         *)
decodeSample(rayData, d) ==
    LET dp == d.dataPointer
        n == ReadByte(rayData, dp)
    IN IF n = 255
       THEN LET l == ReadByte(rayData, dp + 1)
                o == ReadByte(rayData, dp + 2)
                s == ReadByte(rayData, dp + 3)
                t == ToInt32(l) * 4 + (ToInt32(o) \div 64)
                r == ToInt32(o) % 64
                i == s
            IN [dataPointer |-> dp + 4,
                rayLookback |-> [d.rayLookback EXCEPT
                                   ![LookbackIndex(t, r, i)] = <<t, r, i>>],
                samples |-> Append(d.samples, <<t, r, i>>),
                lastRead |-> dp + 3]
       ELSE LET c == (n \div 64) * 64
                y == d.rayLookback[n % 64]
            IN IF c = 0
               THEN [d EXCEPT !.dataPointer = dp + 1,
                              !.samples = Append(@, y),
                              !.lastRead = dp]
               ELSE IF c = 64
               THEN LET g == ReadByte(rayData, dp + 1)
                    IN [d EXCEPT !.dataPointer = dp + 2,
                          !.samples = Append(@, <<y[1] + ((g \div 8) - 15),
                                                  y[2] + ((g % 8) - 3), y[3]>>),
                          !.lastRead = dp + 1]
               ELSE IF c = 128
               THEN LET g == ReadByte(rayData, dp + 1)
                    IN [d EXCEPT !.dataPointer = dp + 2,
                          !.samples = Append(@, <<y[1] + (g - 127),
                                                  y[2], y[3]>>),
                          !.lastRead = dp + 1]
               ELSE LET A == ReadByte(rayData, dp + 1)
                        F == ReadByte(rayData, dp + 2)
                        t == ToInt32(A) * 4 + (ToInt32(F) \div 64)
                        r == ToInt32(F) % 64
                        i == n % 64
                    IN [dataPointer |-> dp + 3,
                        rayLookback |-> [d.rayLookback EXCEPT
                                   ![LookbackIndex(t, r, i)] = <<t, r, i>>],
                        samples |-> Append(d.samples, <<t, r, i>>),
                        lastRead |-> dp + 2]

RECURSIVE decodeToEnd(_, _)
decodeToEnd(rayData, d) ==
    IF d.dataPointer >= Len(rayData) THEN d
    ELSE decodeToEnd(rayData, decodeSample(rayData, d))

(* The `while (true)` loop over the rayData of one frame. *)
RECURSIVE decode(_, _)
decode(rayData, d) ==
    IF d.dataPointer >= Len(rayData) - 1 THEN d
    ELSE decode(rayData, decodeSample(rayData, d))

Empty == <<>>

(* new Array(length) *)
RECURSIVE NewArray(_)
NewArray(length) ==
    IF length = 0 THEN <<>> ELSE <<Empty>> \o NewArray(length - 1)

(* a % b of JavaScript for b > 0: the result has the sign of a. *)
Remainder(a, b) == IF a >= 0 THEN a % b ELSE 0 - ((0 - a) % b)

(* sampleOffset %= 2 * width * height *)
reduce(sampleOffset, width, height) ==
    Remainder(sampleOffset, 2 * width * height)

(* samplePositionBuffer[sampleOffset++]                                    *)
(*     + samplePositionBuffer[sampleOffset++] * width,                    *)
(* which is NaN (kept as Undefined) when one of the entries is undefined.  *)
pixelIndex(samplePositionBuffer, sampleOffset, width) ==
    IF Get(samplePositionBuffer, sampleOffset) = Undefined
        \/ Get(samplePositionBuffer, sampleOffset + 1) = Undefined
    THEN Undefined
    ELSE Get(samplePositionBuffer, sampleOffset)
            + Get(samplePositionBuffer, sampleOffset + 1) * width

(* sampleOffset after the two sampleOffset++ *)
advance(sampleOffset) == sampleOffset + 2

(* The assignments output[index] = [t / 1023, r / 63, i] for the samples   *)
(* of one frame from the k-th on; a sample is kept as <<t, r, i>>.  An     *)
(* assignment to output[NaN] leaves the elements of the array alone.       *)
RECURSIVE place(_, _, _, _, _, _, _)
place(output, samplePositionBuffer, width, height, sampleOffset, samples, k) ==
    IF k > Len(samples) THEN output
    ELSE LET so == reduce(sampleOffset, width, height)
             index == pixelIndex(samplePositionBuffer, so, width)
         IN place(IF index + 1 \in DOMAIN output
                  THEN [output EXCEPT ![index + 1] = samples[k]]
                  ELSE output,
                  samplePositionBuffer, width, height, advance(so), samples,
                  k + 1)

(* The loop `for (const frame of frames)` from the k-th frame on: each     *)
(* frame is decoded with a fresh look-back table; decoded collects what    *)
(* the decoder did with each frame.                                        *)
RECURSIVE decodeFrames(_, _, _, _, _, _)
DecodedFrame(output, samplePositionBuffer, width, height, frames, k, d) ==
    [decodeFrames(place(output, samplePositionBuffer, width, height,
                        2 * frames[k].sampleOffset, d.samples, 1),
                  samplePositionBuffer, width, height, frames, k + 1)
     EXCEPT !.decoded =
                <<[samples |-> d.samples, lastRead |-> d.lastRead]>> \o @]

decodeFrames(output, samplePositionBuffer, width, height, frames, k) ==
    IF k > Len(frames) THEN [output |-> output, decoded |-> <<>>]
    ELSE DecodedFrame(output, samplePositionBuffer, width, height, frames, k,
                      decode(frames[k].rayData, NewDecoder))

PaletteSize == 8

(* The colour of a sample is resolved: the sky, or colours[material],      *)
(* whose use raises a TypeError when colours has no such entry.            *)
hasColour(ray) ==
    \/ ray[1] = 1023 /\ ray[2] = 0 /\ ray[3] = 0
    \/ ray[3] \in 0..(PaletteSize - 1)

raises(output) ==
    \E j \in DOMAIN output : output[j] # Empty /\ ~hasColour(output[j])

Rendered(cam, width, height, frames, p, f) ==
    [called |-> cam.render.called + 1,
     width |-> width, height |-> height, frames |-> frames,
     samplePositionBuffer |-> p.buffer, state |-> p.state,
     partners |-> p.partners, decoded |-> f.decoded, output |-> f.output, raised |-> raises(f.output),
     tables |-> cam.render.tables
                    \cup {[width |-> width, height |-> height,
                           frames |-> frames,
                           samplePositionBuffer |-> p.buffer]}]

Decoded(cam, width, height, frames, p) ==
    Rendered(cam, width, height, frames, p,
             decodeFrames(NewArray(width * height), p.buffer, width, height,
                          frames, 1))

(* renderCameraFrame() for a camera of the given size and frames: its      *)
(* table, what it decoded, its output and whether it raised.               *)
render(cam, width, height, frames) ==
    Decoded(cam, width, height, frames, samplePositions(cam, width, height))

(***************************************************************************)
(* connect / disconnect.                                                   *)
(***************************************************************************)
ClearInterval(handle) == IF handle = "active" THEN "cleared" ELSE handle

disconnectedCancelsTimers(rs) ==
    [r \in DOMAIN rs |->
        IF rs[r].state = "pending"
        THEN [rs[r] EXCEPT !.cutOff = TRUE,
                           !.timer = IF @ = "armed" THEN "cleared" ELSE @]
        ELSE rs[r]]

(* The requests after a call of disconnect(): it touches neither the table *)
(* nor a timer; those pending are marked as cut off.                       *)
disconnected(rs) ==
    [r \in DOMAIN rs |->
        IF rs[r].state = "pending" THEN [rs[r] EXCEPT !.cutOff = TRUE]
        ELSE rs[r]]

(* What ws.terminate() leads to: the 'close' event of a socket that was    *)
(* connecting or open comes before any timer or message, so its listener   *)
(* (emit 'disconnected') is taken in the step of the terminate() call.     *)
terminate(cam, oldState, newState) ==
    IF oldState \in {"CONNECTING", "OPEN"}
    THEN emitDisconnected(cam, newState)
    ELSE [camera |-> cam, events |-> <<>>]

(* connect(): it calls disconnect() without awaiting it when a WebSocket   *)
(* is held, then installs a new WebSocket and a new interval timer.        *)
connect ==
    /\ ws # "null" => pendingDisconnects < MaxPendingDisconnects
    /\ (ws = "null" /\ replenishInterval = "active")
            => leakedIntervals < MaxLeakedIntervals
    /\ pendingDisconnects' = IF ws # "null" THEN pendingDisconnects + 1
                             ELSE pendingDisconnects
    /\ leakedIntervals' = IF ws = "null" /\ replenishInterval = "active"
                          THEN leakedIntervals + 1 ELSE leakedIntervals
    /\ ws' = "CONNECTING"
    /\ wire' = {}
    /\ replenishInterval' = "active"
    /\ LET t == terminate(camera, ws, "CONNECTING")
       IN /\ emitted' = <<"connecting">> \o t.events
          /\ camera' = t.camera
    /\ reqs' = IF ws # "null" THEN disconnected(reqs) ELSE reqs
    /\ tokens' = tokens
    /\ NoTokenCall
    /\ UNCHANGED <<seq, seqCallbacks, api>>

(* disconnect() up to its await of delay(100); ws.terminate() closes the   *)
(* socket, so nothing sent on it is answered any more.                     *)
disconnect ==
    /\ ws # "null" => pendingDisconnects < MaxPendingDisconnects
    /\ replenishInterval' = ClearInterval(replenishInterval)
    /\ pendingDisconnects' = IF ws # "null" THEN pendingDisconnects + 1
                             ELSE pendingDisconnects
    /\ ws' = IF ws # "null" THEN "CLOSED" ELSE ws
    /\ wire' = {}
    /\ LET t == terminate(camera, ws, "CLOSED")
       IN /\ emitted' = t.events
          /\ camera' = t.camera
    /\ reqs' = disconnected(reqs)
    /\ UNCHANGED <<leakedIntervals, seq, seqCallbacks, api>>
    /\ tokens' = tokens
    /\ NoTokenCall

(* disconnect() after its delay(100): this.ws.removeAllListeners() and     *)
(* this.ws = null.  When another continuation has set this.ws to null in   *)
(* the meantime, the first of the two statements raises a TypeError, the   *)
(* call rejects and this.ws stays null.                                    *)
disconnectResume ==
    /\ pendingDisconnects > 0
    /\ pendingDisconnects' = pendingDisconnects - 1
    /\ ws' = "null"
    /\ wire' = {}
    /\ emitted' = <<>>
    /\ UNCHANGED <<replenishInterval, leakedIntervals, seq, seqCallbacks, reqs,
                   camera, api>>
    /\ tokens' = tokens
    /\ NoTokenCall

(***************************************************************************)
(* Requests and responses.                                                 *)
(***************************************************************************)
UnusedRequest ==
    [state |-> "unused", kind |-> "", seq |-> 0, timer |-> "none",
     resolved |-> 0, invoked |-> 0, removed |-> 0, unmatched |-> 0,
     by |-> "", cutOff |-> FALSE, threw |-> FALSE]

(* What makes sendRequest fail after the WebSocket check: isValidAppRequest *)
(* returning false, AppRequest.toBinary throwing, ws.send throwing.         *)
Faults == {"none", "invalid", "toBinary", "send"}

Remove(cbs, n) == [m \in (DOMAIN cbs) \ {n} |-> cbs[m]]
Store(cbs, n, r) == [m \in (DOMAIN cbs) \cup {n} |-> IF m = n THEN r ELSE cbs[m]]

RECURSIVE Probe(_, _)
Probe(nextSeq, cbs) ==
    IF nextSeq \in DOMAIN cbs THEN Probe(nextSeq + 1, cbs) ELSE nextSeq

getNextSeqWrapping(s, cbs) == (s % 2) + 1

getNextSeqLowestFree(s, cbs) == Probe(1, cbs)

getNextSeq(s, cbs) == Probe(s + 1, cbs)

sendRequestKeepsEntry(s, cbs, readyState, r, givenSeq, fault) ==
    IF readyState # "OPEN"
    THEN [seq |-> s, used |-> givenSeq, table |-> cbs, error |-> TRUE,
          events |-> <<>>]
    ELSE LET n == IF givenSeq = 0 THEN getNextSeq(s, cbs) ELSE givenSeq
             s1 == IF givenSeq = 0 THEN n ELSE s
         IN [seq |-> s1, used |-> n, table |-> Store(cbs, n, r),
             error |-> fault # "none",
             events |-> IF fault = "none" THEN <<"request">> ELSE <<>>]

(* sendRequest: the sequence number it uses (givenSeq = 0 stands for null), *)
(* the table it leaves, whether it returned an Error and what it emitted.   *)
sendRequest(s, cbs, readyState, r, givenSeq, fault) ==
    IF readyState # "OPEN"
    THEN [seq |-> s, used |-> givenSeq, table |-> cbs, error |-> TRUE,
          events |-> <<>>]
    ELSE LET n == IF givenSeq = 0 THEN getNextSeq(s, cbs) ELSE givenSeq
             s1 == IF givenSeq = 0 THEN n ELSE s
         IN IF fault # "none"
            THEN [seq |-> s1, used |-> n, table |-> Remove(Store(cbs, n, r), n),
                  error |-> TRUE, events |-> <<>>]
            ELSE [seq |-> s1, used |-> n, table |-> Store(cbs, n, r),
                  error |-> FALSE, events |-> <<"request">>]

NextRequest(r) ==
    /\ reqs[r].state = "unused"
    /\ \A q \in RequestIds : q < r => reqs[q].state # "unused"

(* A callback-style API operation after its tokens were granted:          *)
(* this.sendRequest(data, playerId, playerToken, callback).                *)
sendRequestCallback(r, fault) ==
    /\ NextRequest(r)
    /\ LET out == sendRequest(seq, seqCallbacks, ws, r, 0, fault)
       IN /\ seq' = out.seq
          /\ seqCallbacks' = out.table
          /\ reqs' = [reqs EXCEPT ![r] =
                [UnusedRequest EXCEPT
                    !.state = IF out.error THEN "done" ELSE "pending",
                    !.kind = "callback", !.seq = out.used,
                    !.by = IF out.error THEN "error" ELSE ""]]
          /\ wire' = IF out.error THEN wire ELSE wire \cup {out.used}
          /\ emitted' = out.events
    /\ UNCHANGED <<tokenVars, connVars, camera, api>>

sendAsyncNoTimeout(s, cbs, readyState, req, r, fault) ==
    LET n == getNextSeq(s, cbs)
        out == sendRequest(n, cbs, readyState, r, n, fault)
    IN [seq |-> out.seq, table |-> out.table, error |-> out.error,
        events |-> out.events,
        req |-> IF out.error
                THEN [req EXCEPT !.state = "done", !.kind = "async",
                                 !.seq = n, !.timer = "cleared",
                                 !.resolved = @ + 1, !.by = "error"]
                ELSE [req EXCEPT !.state = "pending", !.kind = "async",
                                 !.seq = n]]

(* The executor of the promise of sendRequestAsync; it runs at once. *)
sendAsync(s, cbs, readyState, req, r, fault) ==
    LET n == getNextSeq(s, cbs)
        out == sendRequest(n, cbs, readyState, r, n, fault)
    IN [seq |-> out.seq, table |-> out.table, error |-> out.error,
        events |-> out.events,
        req |-> IF out.error
                THEN [req EXCEPT !.state = "done", !.kind = "async",
                                 !.seq = n, !.timer = "cleared",
                                 !.resolved = @ + 1, !.by = "error"]
                ELSE [req EXCEPT !.state = "pending", !.kind = "async",
                                 !.seq = n, !.timer = "armed"]]

(* sendRequestAsync(data, playerId, playerToken, timeoutMs). *)
sendRequestAsync(r, fault) ==
    /\ NextRequest(r)
    /\ LET out == sendAsync(seq, seqCallbacks, ws, UnusedRequest, r, fault)
       IN /\ seq' = out.seq
          /\ seqCallbacks' = out.table
          /\ reqs' = [reqs EXCEPT ![r] = out.req]
          /\ wire' = IF out.error THEN wire ELSE wire \cup {out.req.seq}
          /\ emitted' = out.events
    /\ UNCHANGED <<tokenVars, connVars, camera, api>>

timeoutHandlerKeepsEntry(cbs, n) == cbs

(* The table after the setTimeout handler of sendRequestAsync. *)
timeoutHandler(cbs, n) == Remove(cbs, n)

(* The request after the setTimeout handler of sendRequestAsync. *)
timedOut(req, cbs) ==
    [req EXCEPT !.state = "done", !.timer = "fired", !.resolved = @ + 1,
                !.removed = IF req.seq \in DOMAIN cbs
                                /\ req.seq \notin DOMAIN timeoutHandler(cbs, req.seq)
                            THEN @ + 1 ELSE @,
                !.by = IF @ = "" THEN "timeout" ELSE @]

(* The timer of a request sent with sendRequestAsync expires. *)
requestTimeout(r) ==
    /\ reqs[r].timer = "armed"
    /\ (api.pc = "request" /\ api.r = r)
            => api.timer >= REQUEST_GET_INFO_TIMEOUT_MS
    /\ seqCallbacks' = timeoutHandler(seqCallbacks, reqs[r].seq)
    /\ reqs' = [reqs EXCEPT ![r] = timedOut(reqs[r], seqCallbacks)]
    /\ emitted' = <<>>
    /\ api' = IF api.pc = "request" /\ api.r = r
              THEN [api EXCEPT !.pc = "done"] ELSE api
    /\ UNCHANGED <<seq, wire, tokenVars, connVars, camera>>

asyncCallbackKeepsTimer(req) ==
    [req EXCEPT !.invoked = @ + 1, !.resolved = @ + 1]

(* The callback sendRequestAsync hands to sendRequest: clearTimeout, then  *)
(* resolve with the response or with an Error; it never throws.            *)
asyncCallback(req) ==
    [req EXCEPT !.timer = IF @ = "armed" THEN "cleared" ELSE @,
                !.invoked = @ + 1, !.resolved = @ + 1]

(* What the server can send on the open WebSocket: the response to a       *)
(* request sent on it, a broadcast with or without camera rays, or data    *)
(* that AppMessage.fromBinary rejects.                                     *)
Messages ==
    {[kind |-> "response", seq |-> n] : n \in wire}
        \cup {[kind |-> k, seq |-> 0] : k \in {"broadcast", "cameraRays", "garbage"}}

Matches(cbs, msg) == msg.kind = "response" /\ msg.seq \in DOMAIN cbs

messageHandlerNoFinally(cbs, msg, throws) ==
    IF msg.kind = "garbage"
    THEN [table |-> cbs, events |-> <<"error:Callback">>]
    ELSE IF Matches(cbs, msg)
         THEN IF throws
              THEN [table |-> cbs,
                    events |-> <<"error:Callback", "message:unhandled">>]
              ELSE [table |-> Remove(cbs, msg.seq),
                    events |-> <<"message:handled">>]
         ELSE [table |-> cbs, events |-> <<"message:unhandled">>]

messageHandlerHandledFirst(cbs, msg, throws) ==
    IF msg.kind = "garbage"
    THEN [table |-> cbs, events |-> <<"error:Callback">>]
    ELSE IF Matches(cbs, msg)
         THEN [table |-> Remove(cbs, msg.seq),
               events |-> IF throws
                          THEN <<"error:Callback", "message:handled">>
                          ELSE <<"message:handled">>]
         ELSE [table |-> cbs, events |-> <<"message:unhandled">>]

(* The 'message' listener of the WebSocket: the table it leaves and the    *)
(* events it emits; throws tells whether the stored callback throws.       *)
messageHandler(cbs, msg, throws) ==
    IF msg.kind = "garbage"
    THEN [table |-> cbs, events |-> <<"error:Callback">>]
    ELSE IF Matches(cbs, msg)
         THEN [table |-> Remove(cbs, msg.seq),
               events |-> IF throws
                          THEN <<"error:Callback", "message:unhandled">>
                          ELSE <<"message:handled">>]
         ELSE [table |-> cbs, events |-> <<"message:unhandled">>]

(* The request whose callback a message reaches, after the call. *)
called(req, cbs1, throws) ==
    LET c == IF req.kind = "async" THEN asyncCallback(req)
             ELSE [req EXCEPT !.invoked = @ + 1, !.threw = throws]
    IN IF req.seq \in DOMAIN cbs1 THEN c
       ELSE [c EXCEPT !.state = "done", !.removed = @ + 1,
                      !.by = IF @ = "" THEN "response" ELSE @]

(* The WebSocket emits 'message': the listener installed by connect() runs *)
(* and, through the client's 'message' event, the Camera's listener.       *)
onMessage(msg, throws) ==
    /\ ws = "OPEN"
    /\ msg \in Messages
    /\ throws => (Matches(seqCallbacks, msg)
                    /\ reqs[seqCallbacks[msg.seq]].kind = "callback")
    /\ (camera.isSubscribed /\ msg.kind = "cameraRays")
            => (camera.received < MaxFrames /\ camera.rendering < MaxRendering)
    /\ wire' = wire \ {msg.seq}
    /\ LET h == messageHandler(seqCallbacks, msg, throws)
       IN /\ seqCallbacks' = h.table
          /\ emitted' = h.events
          /\ reqs' = IF Matches(seqCallbacks, msg)
                     THEN [reqs EXCEPT ![seqCallbacks[msg.seq]] =
                                called(@, h.table, throws)]
                     ELSE [r \in RequestIds |->
                            IF msg.kind = "response" /\ reqs[r].state # "unused"
                                /\ reqs[r].seq = msg.seq
                            THEN [reqs[r] EXCEPT !.unmatched = @ + 1]
                            ELSE reqs[r]]
          /\ camera' = IF msg.kind = "garbage" THEN camera
                       ELSE messageListener(camera, msg.kind)
    /\ api' = IF api.pc = "request" /\ Matches(seqCallbacks, msg)
                    /\ seqCallbacks[msg.seq] = api.r
              THEN [api EXCEPT !.pc = "done"]
              ELSE api
    /\ UNCHANGED <<seq, tokenVars, connVars>>

(* The 'open' event of the WebSocket. *)
wsOpen ==
    /\ ws = "CONNECTING"
    /\ ws' = "OPEN"
    /\ emitted' = <<"connected">>
    /\ UNCHANGED <<replenishInterval, leakedIntervals, pendingDisconnects,
                   tokenVars, reqVars, camera, api>>

(* The server or the network closes the WebSocket. *)
wsClose ==
    /\ ws \in {"CONNECTING", "OPEN"}
    /\ ws' = "CLOSED"
    /\ wire' = {}
    /\ LET d == emitDisconnected(camera, "CLOSED")
       IN /\ emitted' = d.events
          /\ camera' = d.camera
    /\ UNCHANGED <<replenishInterval, leakedIntervals, pendingDisconnects,
                   tokenVars, seq, seqCallbacks, reqs, api>>

(***************************************************************************)
(* getInfoAsync: consumeTokens, then sendRequestAsync with its timeoutMs.  *)
(***************************************************************************)
(* getInfoAsync(playerId, playerToken, waitForReplenish) up to its first   *)
(* suspension; one operation is followed from its call to its return.      *)
getInfoAsync(playerId, waitForReplenish) ==
    /\ api.pc = "idle"
    /\ LET r == consumeTokensCall(tokens, playerId, REQUEST_GET_INFO_TOKEN_COST,
                                  waitForReplenish, ConsumeTimeoutMs)
       IN /\ tokens' = r.tokens
          /\ IF r.result = "delay"
             THEN /\ FreeCalls # {}
                  /\ calls' = [calls EXCEPT ![FreeCall] =
                        [pc |-> "delay", playerId |-> playerId,
                         op |-> "getInfo", elapsed |-> 0]]
                  /\ returned' = "none"
                  /\ api' = [IdleApi EXCEPT !.pc = "tokens", !.c = FreeCall]
             ELSE /\ calls' = calls
                  /\ returned' = r.result
                  /\ api' = afterConsumeTokens(IdleApi, r.result, 0)
    /\ UNCHANGED <<connVars, reqVars, emitted, camera>>

(* getInfoAsync after consumeTokens returned NoError: where it is after    *)
(* calling sendRequestAsync for request r.                                 *)
getInfoAsyncSent(a, r, out) ==
    [a EXCEPT !.pc = IF out.error THEN "done" ELSE "request",
              !.r = r, !.timer = 0]

getInfoAsyncSend(r, fault) ==
    /\ api.pc = "granted"
    /\ NextRequest(r)
    /\ LET out == sendAsync(seq, seqCallbacks, ws, UnusedRequest, r, fault)
       IN /\ seq' = out.seq
          /\ seqCallbacks' = out.table
          /\ reqs' = [reqs EXCEPT ![r] = out.req]
          /\ wire' = IF out.error THEN wire ELSE wire \cup {out.req.seq}
          /\ emitted' = out.events
          /\ api' = getInfoAsyncSent(api, r, out)
    /\ tokens' = tokens
    /\ NoTokenCall
    /\ UNCHANGED <<connVars, camera>>

(***************************************************************************)
(* The validators of validation.ts that sendRequest runs on a request.     *)
(* A JavaScript value is kept as its typeof and, for an object, its own    *)
(* properties; null is never passed.                                       *)
(***************************************************************************)
NoProperties == [k \in {} |-> 0]
JsUndefined == [type |-> "undefined", fields |-> NoProperties]
JsString == [type |-> "string", fields |-> NoProperties]
JsNumber == [type |-> "number", fields |-> NoProperties]
JsObject(fields) == [type |-> "object", fields |-> fields]

typeof(object) == object.type
Keys(object) == DOMAIN object.fields
(* object.key: undefined when the object has no such property. *)
Prop(object, key) ==
    IF key \in Keys(object) THEN object.fields[key] ELSE JsUndefined

isValidAppEmpty(object) ==
    IF typeof(object) # "object" THEN FALSE
    ELSE Keys(object) = {}

isValidAppSendMessage(object) ==
    IF typeof(object) # "object" THEN FALSE
    ELSE /\ typeof(Prop(object, "message")) = "string"
         /\ Keys(object) \subseteq {"message"}

isValidAppGetNexusAuth(object) ==
    IF typeof(object) # "object" THEN FALSE
    ELSE /\ typeof(Prop(object, "appKey")) = "string"
         /\ Keys(object) \subseteq {"appKey"}

(* The properties of an AppRequest that must be an AppEmpty when present. *)
AppEmptyKeys ==
    {"getInfo", "getTime", "getMap", "getTeamInfo", "getTeamChat",
     "getEntityInfo", "checkSubscription", "getMapMarkers", "getClanInfo",
     "getClanChat", "cameraUnsubscribe"}
(* The properties that must be an AppSendMessage when present. *)
AppSendMessageKeys == {"sendTeamMessage", "setClanMotd", "sendClanMessage"}
(* The properties whose validators are not followed here; no request that  *)
(* is explored carries one of them.                                        *)
OtherKeys ==
    {"setEntityValue", "setSubscription", "promoteToLeader",
     "cameraSubscribe", "cameraInput"}
validKeys ==
    {"seq", "playerId", "playerToken", "entityId", "getNexusAuth"}
        \cup AppEmptyKeys \cup AppSendMessageKeys \cup OtherKeys

isValidAppRequest(object) ==
    IF typeof(object) # "object" THEN FALSE
    ELSE /\ typeof(Prop(object, "seq")) = "number"
         /\ typeof(Prop(object, "playerId")) = "string"
         /\ typeof(Prop(object, "playerToken")) = "number"
         /\ typeof(Prop(object, "entityId")) \in {"undefined", "number"}
         /\ \A key \in AppEmptyKeys :
                \/ typeof(Prop(object, key)) = "undefined"
                \/ isValidAppEmpty(Prop(object, key))
         /\ \A key \in AppSendMessageKeys :
                \/ typeof(Prop(object, key)) = "undefined"
                \/ isValidAppSendMessage(Prop(object, key))
         /\ \A key \in OtherKeys : typeof(Prop(object, key)) = "undefined"
         /\ \/ typeof(Prop(object, "getNexusAuth")) = "undefined"
            \/ isValidAppGetNexusAuth(Prop(object, "getGetNexusAuth"))
         /\ Keys(object) \subseteq validKeys

(***************************************************************************)
(* Callback-style API operations: consumeTokens, then sendRequest.         *)
(***************************************************************************)
(* The operations that are explored and the argument each is called with   *)
(* (message, appKey; getInfo takes none).                                  *)
Operations == {"getInfo", "sendTeamMessage", "getNexusAuth"}
Arguments == {JsString, JsNumber}

(* The data an operation passes to sendRequest. *)
RequestData(op, arg) ==
    CASE op = "getInfo" -> "getInfo" :> JsObject(NoProperties)
      [] op = "sendTeamMessage" ->
            "sendTeamMessage" :> JsObject("message" :> arg)
      [] op = "getNexusAuth" ->
            "getNexusAuth" :> JsObject("appKey" :> arg)

(* appRequestData of sendRequest: { seq, playerId, playerToken, ...data }. *)
appRequestData(data) ==
    JsObject([key \in {"seq", "playerId", "playerToken"} \cup DOMAIN data |->
                IF key \in DOMAIN data THEN data[key]
                ELSE IF key = "playerId" THEN JsString ELSE JsNumber])

(* What stops sendRequest once the WebSocket was found open: the request   *)
(* failing isValidAppRequest, or else what the environment makes toBinary  *)
(* and ws.send do.                                                         *)
SendFaults == {"none", "toBinary", "send"}
FaultOf(data, fault) ==
    IF ~isValidAppRequest(appRequestData(data)) THEN "invalid" ELSE fault

(* getInfo, sendTeamMessage or getNexusAuth called with a callback, for a  *)
(* call whose consumeTokens returns without suspending in delay(100): the  *)
(* await of its result and the sendRequest that follows run before any     *)
(* timer or socket event.                                                  *)
callbackOperation(playerId, op, arg, waitForReplenish, r, fault) ==
    /\ NextRequest(r)
    /\ LET t == consumeTokensCall(tokens, playerId, TokenCost(op),
                                  waitForReplenish, ConsumeTimeoutMs)
           out == sendRequest(seq, seqCallbacks, ws, r, 0,
                              FaultOf(RequestData(op, arg), fault))
       IN /\ t.result # "delay"
          /\ tokens' = t.tokens
          /\ calls' = calls
          /\ returned' = t.result
          /\ IF t.result # "NoError"
             THEN UNCHANGED <<reqVars, emitted>>
             ELSE /\ seq' = out.seq
                  /\ seqCallbacks' = out.table
                  /\ reqs' = [reqs EXCEPT ![r] =
                        [UnusedRequest EXCEPT
                            !.state = IF out.error THEN "done" ELSE "pending",
                            !.kind = "callback", !.seq = out.used,
                            !.by = IF out.error THEN "error" ELSE ""]]
                  /\ wire' = IF out.error THEN wire ELSE wire \cup {out.used}
                  /\ emitted' = out.events
    /\ UNCHANGED <<connVars, camera, api>>

(***************************************************************************)
(* What an awaited API call resolves with: a ConsumeTokensError, an Error  *)
(* or an AppResponse.  The error of an AppResponse is <<>> when it has     *)
(* none, else <<tag>> with the string of its AppError.                     *)
(***************************************************************************)
RecognizedTags ==
    {"server_error", "banned", "rate_limit", "not_found", "wrong_type",
     "no_team", "no_clan", "no_map", "no_camera", "no_player",
     "access_denied", "player_online", "invalid_playerid", "invalid_id",
     "invalid_motd", "too_many_subscribers", "not_enabled", "message_not_sent"}

ErrorTags == RecognizedTags \cup {"unknown", "", "SERVER_ERROR", "no_vehicle"}

ControlFlagsValues == {0, 10, 7, 58, 2}

AppResponse(error, controlFlags) ==
    [kind |-> "AppResponse", error |-> error, controlFlags |-> controlFlags]

NoResponses ==
    {[kind |-> k, error |-> <<>>, controlFlags |-> 0] :
        k \in {"ConsumeTokensError", "Error"}}

(* validation.isValidAppResponse() of what an API call resolved with *)
isValidAppResponse(response) == response.kind = "AppResponse"

getAppResponseErrorNoTeamAsNoClan(appResponse) ==
    IF appResponse.error = <<>> THEN "NoError"
    ELSE CASE appResponse.error[1] = "server_error" -> "ServerError"
           [] appResponse.error[1] = "banned" -> "Banned"
           [] appResponse.error[1] = "rate_limit" -> "RateLimit"
           [] appResponse.error[1] = "not_found" -> "NotFound"
           [] appResponse.error[1] = "wrong_type" -> "WrongType"
           [] appResponse.error[1] = "no_team" -> "NoClan"
           [] appResponse.error[1] = "no_clan" -> "NoClan"
           [] appResponse.error[1] = "no_map" -> "NoMap"
           [] appResponse.error[1] = "no_camera" -> "NoCamera"
           [] appResponse.error[1] = "no_player" -> "NoPlayer"
           [] appResponse.error[1] = "access_denied" -> "AccessDenied"
           [] appResponse.error[1] = "player_online" -> "PlayerOnline"
           [] appResponse.error[1] = "invalid_playerid" -> "InvalidPlayerid"
           [] appResponse.error[1] = "invalid_id" -> "InvalidId"
           [] appResponse.error[1] = "invalid_motd" -> "InvalidMotd"
           [] appResponse.error[1] = "too_many_subscribers" -> "TooManySubscribers"
           [] appResponse.error[1] = "not_enabled" -> "NotEnabled"
           [] appResponse.error[1] = "message_not_sent" -> "MessageNotSent"
           [] OTHER -> "Unknown"

(* getAppResponseError() *)
getAppResponseError(appResponse) ==
    IF appResponse.error = <<>> THEN "NoError"
    ELSE CASE appResponse.error[1] = "server_error" -> "ServerError"
           [] appResponse.error[1] = "banned" -> "Banned"
           [] appResponse.error[1] = "rate_limit" -> "RateLimit"
           [] appResponse.error[1] = "not_found" -> "NotFound"
           [] appResponse.error[1] = "wrong_type" -> "WrongType"
           [] appResponse.error[1] = "no_team" -> "NoTeam"
           [] appResponse.error[1] = "no_clan" -> "NoClan"
           [] appResponse.error[1] = "no_map" -> "NoMap"
           [] appResponse.error[1] = "no_camera" -> "NoCamera"
           [] appResponse.error[1] = "no_player" -> "NoPlayer"
           [] appResponse.error[1] = "access_denied" -> "AccessDenied"
           [] appResponse.error[1] = "player_online" -> "PlayerOnline"
           [] appResponse.error[1] = "invalid_playerid" -> "InvalidPlayerid"
           [] appResponse.error[1] = "invalid_id" -> "InvalidId"
           [] appResponse.error[1] = "invalid_motd" -> "InvalidMotd"
           [] appResponse.error[1] = "too_many_subscribers" -> "TooManySubscribers"
           [] appResponse.error[1] = "not_enabled" -> "NotEnabled"
           [] appResponse.error[1] = "message_not_sent" -> "MessageNotSent"
           [] OTHER -> "Unknown"

(* getCameraType() *)
getCameraType(controlFlags) ==
    CASE controlFlags = 0 -> "CCTV_CAMERA"
      [] controlFlags = 10 -> "PTZ_CCTV_CAMERA"
      [] controlFlags = 7 -> "DRONE"
      [] controlFlags = 58 -> "AUTO_TURRET"
      [] OTHER -> "UNKNOWN"

(* What subscribe() may be answered: everything, what the frames of a      *)
(* camera need, and what the control of a camera needs.                    *)
SubscribeResponses ==
    NoResponses
        \cup {AppResponse(<<tag>>, 0) : tag \in ErrorTags}
        \cup {AppResponse(<<>>, 0)}

CameraResponses == {AppResponse(<<>>, 0), AppResponse(<<"no_camera">>, 0)}

ControlResponses ==
    {AppResponse(<<>>, flags) : flags \in ControlFlagsValues}
        \cup {[kind |-> "Error", error |-> <<>>, controlFlags |-> 0]}

(* What cameraInputAsync resolves with. *)
InputResults == {"AppResponse", "AppResponse:error", "Error", "ConsumeTokensError"}

(* zoom(), shoot() and reload() up to the first await, or to the return of *)
(* false: a cameraInputAsync call is made for the button that is pressed.  *)
pressAndRelease(cam, op, cameraType, buttons) ==
    IF ~cam.isSubscribed \/ cam.cameraType # cameraType
    THEN [op |-> op, pc |-> "done", inputs |-> <<>>, results |-> <<>>,
          returned |-> "false"]
    ELSE [op |-> op, pc |-> "press", inputs |-> <<buttons>>, results |-> <<>>,
          returned |-> "none"]

zoomAnyCamera(cam) ==
    pressAndRelease(cam, "zoom", cam.cameraType, "FIRE_PRIMARY")

zoom(cam) == pressAndRelease(cam, "zoom", "PTZ_CCTV_CAMERA", "FIRE_PRIMARY")

shoot(cam) == pressAndRelease(cam, "shoot", "AUTO_TURRET", "FIRE_PRIMARY")

reload(cam) == pressAndRelease(cam, "reload", "AUTO_TURRET", "RELOAD")

(* zoom(), shoot() and reload() after an awaited cameraInputAsync resolved  *)
(* with result: the release is sent, or true is returned.                  *)
released(control, result) ==
    IF control.pc = "press"
    THEN [control EXCEPT !.pc = "release", !.inputs = Append(@, "NONE"),
                         !.results = Append(@, result)]
    ELSE [control EXCEPT !.pc = "done", !.results = Append(@, result),
                         !.returned = "true"]

(***************************************************************************)
(* Camera operations.  The token ledger and the pending table, which       *)
(* cameraSubscribeAsync and cameraUnsubscribeAsync go through, are         *)
(* followed by the other specifications; here the awaited call returns a   *)
(* valid response without error (ok) or anything else.                     *)
(***************************************************************************)
(* subscribe() up to its await of cameraSubscribeAsync. *)
cameraSubscribe ==
    /\ camera.subscribing < MaxCameraCalls
    /\ camera' = [camera EXCEPT !.subscribing = @ + 1]
    /\ emitted' = <<"subscribing">>
    /\ UNCHANGED <<tokenVars, connVars, reqVars, api>>

(* subscribe() after cameraSubscribeAsync resolved with response; an       *)
(* AppResponse can only have come over an open WebSocket.                  *)
cameraSubscribeReturn(response) ==
    /\ camera.subscribing > 0
    /\ isValidAppResponse(response) => ws = "OPEN"
    /\ IF isValidAppResponse(response)
            /\ getAppResponseError(response) = "NoError"
       THEN /\ camera' = [camera EXCEPT !.subscribing = @ - 1,
                            !.isSubscribed = TRUE, !.cameraRays = <<>>,
                            !.cameraSubscribeInfo = "info",
                            !.cameraType = getCameraType(response.controlFlags),
                            !.appResponseError = "NoError",
                            !.received = 0, !.shifted = 0, !.cut = FALSE]
            /\ emitted' = <<"subscribed">>
       ELSE /\ camera' = [ClearCamera(camera) EXCEPT
                            !.subscribing = @ - 1,
                            !.appResponseError =
                                IF isValidAppResponse(response)
                                THEN getAppResponseError(response)
                                ELSE "none"]
            /\ emitted' = <<>>
    /\ UNCHANGED <<tokenVars, connVars, reqVars, api>>

(* unsubscribe() called by the user of the Camera. *)
cameraUnsubscribe ==
    /\ isConnected(ws) => camera.unsubscribing < MaxCameraCalls
    /\ LET u == unsubscribe(camera, ws)
       IN /\ camera' = u.camera
          /\ emitted' = u.events
    /\ UNCHANGED <<tokenVars, connVars, reqVars, api>>

(* unsubscribe() after cameraUnsubscribeAsync returned. *)
cameraUnsubscribeReturn ==
    /\ camera.unsubscribing > 0
    /\ camera' = [ClearCamera(camera) EXCEPT !.unsubscribing = @ - 1]
    /\ emitted' = <<"unsubscribed">>
    /\ UNCHANGED <<tokenVars, connVars, reqVars, api>>

(* zoom(), shoot() or reload() is called; one such call at a time. *)
cameraControl(op) ==
    /\ camera.control.pc \in {"idle", "done"}
    /\ camera' = [camera EXCEPT !.control =
                        CASE op = "zoom" -> zoom(camera)
                          [] op = "shoot" -> shoot(camera)
                          [] op = "reload" -> reload(camera)]
    /\ emitted' = <<>>
    /\ UNCHANGED <<tokenVars, connVars, reqVars, api>>

(* The cameraInputAsync call that zoom(), shoot() or reload() awaits       *)
(* resolves; an AppResponse can only have come over an open WebSocket.     *)
cameraInputReturn(result) ==
    /\ camera.control.pc \in {"press", "release"}
    /\ result \in {"AppResponse", "AppResponse:error"} => ws = "OPEN"
    /\ camera' = [camera EXCEPT !.control = released(@, result)]
    /\ emitted' = <<>>
    /\ UNCHANGED <<tokenVars, connVars, reqVars, api>>

(* The 'message' listener of the Camera after renderCameraFrame() has      *)
(* produced its image.                                                     *)
renderDone ==
    /\ camera.rendering > 0
    /\ camera' = [camera EXCEPT !.rendering = @ - 1]
    /\ emitted' = <<"render">>
    /\ UNCHANGED <<tokenVars, connVars, reqVars, api>>

(***************************************************************************)
(* Rendering.  The frames of the window and the size of the camera are     *)
(* what the server sent: any bytes, any size.                              *)
(***************************************************************************)
RayBytes == {0, 64, 123, 128, 193, 200, 255}

ShortRayData == UNION {[1..n -> RayBytes] : n \in 0..MaxRayLength}

Triples == {<<h, v, m>> : h \in {0, 515, 1023}, v \in {0, 63}, m \in {0, 8, 255}}

(* The 4 bytes of the 0xFF marker form that carry (h, v, m). *)
Encode(t) == <<255, t[1] \div 4, ((t[1] % 4) * 64) + t[2], t[3]>>

RECURSIVE EncodeAll(_)
EncodeAll(ts) ==
    IF ts = <<>> THEN <<>> ELSE Encode(Head(ts)) \o EncodeAll(Tail(ts))

TripleSeqs == UNION {[1..n -> Triples] : n \in 0..MaxTriples}

Trailing == {<<>>} \cup {<<b>> : b \in RayBytes}

EncodedRayData == {EncodeAll(ts) \o tr : ts \in TripleSeqs, tr \in Trailing}

(* A marker form with a material of the palette, and the same triple in   *)
(* the form of opcode 11.                                                  *)
ExampleRayData == {<<255, 64, 63, 5>>, <<197, 64, 63>>}

DecodeFrames ==
    {[sampleOffset |-> 0, rayData |-> d] :
        d \in ShortRayData \cup EncodedRayData \cup ExampleRayData}

DecodeSizes == {<<1, 1>>, <<2, 2>>}

ShuffleFrames ==
    {<<>>,
     <<[sampleOffset |-> 1, rayData |-> <<255, 0, 0, 1>>]>>,
     <<[sampleOffset |-> -1, rayData |-> <<0, 0, 0>>]>>,
     <<[sampleOffset |-> 0, rayData |-> <<0, 0, 0>>],
       [sampleOffset |-> 2, rayData |-> <<200, 1, 1, 64, 0>>]>>}

(* renderCameraFrame() *)
renderCameraFrame(width, height, frames) ==
    /\ camera.render.called < MaxRenders
    /\ camera' = [camera EXCEPT !.render = render(camera, width, height, frames)]
    /\ emitted' = <<>>
    /\ UNCHANGED <<tokenVars, connVars, reqVars, api>>

(***************************************************************************)
(* Specifications of the token ledger.                                     *)
(*   Spec      non-blocking calls of two callers;                          *)
(*   WaitSpec  blocking and non-blocking getMap calls of one caller, up to *)
(*             MaxCalls of them suspended at once;                         *)
(*   FairWaitSpec  WaitSpec where timers fire and the clock advances.      *)
(***************************************************************************)
Init ==
    /\ tokens = [connection |-> MAX_REQUESTS_PER_IP_ADDRESS,
                 playerId |-> [p \in {} |-> 0],
                 serverPairing |-> MAX_REQUESTS_FOR_SERVER_PAIRING]
    /\ calls = [c \in Calls |-> IdleCall]
    /\ returned = "none"
    /\ ws = "null"
    /\ replenishInterval = "null"
    /\ leakedIntervals = 0
    /\ pendingDisconnects = 0
    /\ seq = 0
    /\ seqCallbacks = [n \in {} |-> 0]
    /\ reqs = [r \in RequestIds |-> UnusedRequest]
    /\ wire = {}
    /\ emitted = <<>>
    /\ camera = NewCamera
    /\ api = IdleApi

Next ==
    \/ replenishTask
    \/ \E p \in PlayerIds, op \in Requests : consumeTokens(p, op, FALSE)
    \/ connect
    \/ disconnect
    \/ disconnectResume

Spec == Init /\ [][Next]_vars

WaitNext ==
    \/ replenishTask
    \/ \E p \in WaitPlayerIds, op \in WaitRequests, w \in BOOLEAN :
            consumeTokens(p, op, w)
    \/ \E c \in Calls : consumeTokensResume(c)
    \/ timePasses
    \/ connect
    \/ disconnect
    \/ disconnectResume

WaitSpec == Init /\ [][WaitNext]_vars

FairWaitSpec ==
    /\ Init
    /\ [][WaitNext]_vars
    /\ \A c \in Calls : WF_vars(consumeTokensResume(c))
    /\ WF_vars(timePasses)

(***************************************************************************)
(* Specification of the requests and responses: API operations whose       *)
(* tokens were granted, the replies of the server and the timers.          *)
(***************************************************************************)
RequestNext ==
    \/ \E r \in RequestIds, f \in Faults : sendRequestCallback(r, f)
    \/ \E r \in RequestIds, f \in Faults : sendRequestAsync(r, f)
    \/ \E r \in RequestIds : requestTimeout(r)
    \/ \E msg \in Messages, throws \in BOOLEAN : onMessage(msg, throws)
    \/ wsOpen
    \/ wsClose
    \/ connect
    \/ disconnect
    \/ disconnectResume

RequestSpec == Init /\ [][RequestNext]_vars

(* RequestSpec where the timers of requests fire and disconnect() resumes. *)
FairRequestSpec ==
    /\ Init
    /\ [][RequestNext]_vars
    /\ \A r \in RequestIds : WF_vars(requestTimeout(r))
    /\ WF_vars(disconnectResume)

(***************************************************************************)
(* Specification of getInfoAsync with time: one caller, getMap calls that  *)
(* use up its tokens, the replies of the server and the clock.             *)
(***************************************************************************)
ApiNext ==
    \/ replenishTask
    \/ \E p \in WaitPlayerIds, op \in WaitRequests : consumeTokens(p, op, FALSE)
    \/ \E p \in WaitPlayerIds, w \in BOOLEAN : getInfoAsync(p, w)
    \/ \E c \in Calls : consumeTokensResume(c)
    \/ \E r \in RequestIds, f \in Faults : getInfoAsyncSend(r, f)
    \/ \E r \in RequestIds : requestTimeout(r)
    \/ \E msg \in Messages, throws \in BOOLEAN : onMessage(msg, throws)
    \/ timePasses
    \/ connect
    \/ wsOpen
    \/ wsClose

ApiSpec == Init /\ [][ApiNext]_vars

(***************************************************************************)
(* Specification of the callback-style API operations: one caller, the     *)
(* connection and the replies of the server.                               *)
(***************************************************************************)
OperationNext ==
    \/ \E op \in Operations, arg \in Arguments, w \in BOOLEAN,
          r \in RequestIds, f \in SendFaults :
            callbackOperation("player1", op, arg, w, r, f)
    \/ \E msg \in Messages, throws \in BOOLEAN : onMessage(msg, throws)
    \/ connect
    \/ wsOpen
    \/ wsClose

OperationSpec == Init /\ [][OperationNext]_vars

(***************************************************************************)
(* Specification of the Camera: the connection, the messages of the server *)
(* and the operations of the Camera.                                       *)
(***************************************************************************)
CameraNext ==
    \/ cameraSubscribe
    \/ \E response \in NoResponses \cup CameraResponses :
            cameraSubscribeReturn(response)
    \/ cameraUnsubscribe
    \/ cameraUnsubscribeReturn
    \/ renderDone
    \/ \E msg \in Messages, throws \in BOOLEAN : onMessage(msg, throws)
    \/ wsOpen
    \/ wsClose
    \/ connect
    \/ disconnect
    \/ disconnectResume

CameraSpec == Init /\ [][CameraNext]_vars

(***************************************************************************)
(* Specifications of the operations of the Camera without its frames.      *)
(*   SubscribeSpec  subscribe() answered by every kind of response;        *)
(*   ControlSpec    zoom(), shoot() and reload() on cameras of every type. *)
(***************************************************************************)
SubscribeNext ==
    \/ cameraSubscribe
    \/ \E response \in SubscribeResponses : cameraSubscribeReturn(response)
    \/ cameraUnsubscribe
    \/ cameraUnsubscribeReturn
    \/ wsOpen
    \/ wsClose
    \/ connect
    \/ disconnect
    \/ disconnectResume

SubscribeSpec == Init /\ [][SubscribeNext]_vars

ControlNext ==
    \/ cameraSubscribe
    \/ \E response \in ControlResponses : cameraSubscribeReturn(response)
    \/ cameraUnsubscribe
    \/ cameraUnsubscribeReturn
    \/ \E op \in {"zoom", "shoot", "reload"} : cameraControl(op)
    \/ \E result \in InputResults : cameraInputReturn(result)
    \/ wsOpen
    \/ wsClose
    \/ connect
    \/ disconnect
    \/ disconnectResume

ControlSpec == Init /\ [][ControlNext]_vars

(***************************************************************************)
(* Specifications of renderCameraFrame.                                    *)
(*   DecodeSpec   one render of one frame of any bytes;                    *)
(*   ShuffleSpec  renders of cameras of any size, one after the other.     *)
(***************************************************************************)
DecodeNext ==
    /\ camera.render.called = 0
    /\ \E size \in DecodeSizes, frame \in DecodeFrames :
            renderCameraFrame(size[1], size[2], <<frame>>)

DecodeSpec == Init /\ [][DecodeNext]_vars

ShuffleNext ==
    \E width \in 1..MaxWidth, height \in 1..MaxHeight, frames \in ShuffleFrames :
        renderCameraFrame(width, height, frames)

ShuffleSpec == Init /\ [][ShuffleNext]_vars

(***************************************************************************)
(* Properties of the token ledger.                                         *)
(***************************************************************************)
Balance(tk, playerId) ==
    IF playerId \in DOMAIN tk.playerId THEN tk.playerId[playerId]
    ELSE MAX_REQUESTS_PER_PLAYER_ID

(* C1: in every reachable state no balance exceeds its ceiling: the        *)
(* connection balance is at most 50 tokens, every known identity's balance *)
(* at most 25 and the pairing balance at most 5.                           *)
C1_NoBalanceAboveCeiling ==
    /\ tokens.connection <= MAX_REQUESTS_PER_IP_ADDRESS
    /\ \A p \in DOMAIN tokens.playerId :
            tokens.playerId[p] <= MAX_REQUESTS_PER_PLAYER_ID
    /\ tokens.serverPairing <= MAX_REQUESTS_FOR_SERVER_PAIRING

(* A tick has raised an identity from 20 to 23 tokens and the connection   *)
(* from 45 to its ceiling, where 45 + 15 was clamped.                      *)
C1_Witness ==
    /\ tokens.connection = MAX_REQUESTS_PER_IP_ADDRESS
    /\ \E p \in DOMAIN tokens.playerId :
            tokens.playerId[p] = MAX_REQUESTS_PER_PLAYER_ID
                - REQUEST_GET_MAP_TOKEN_COST
                + REQUESTS_PER_PLAYER_ID_REPLENISH_RATE

(* C2: under every interleaving of ticks with blocking and non-blocking    *)
(* calls the connection balance and every identity's balance stay >= 0.    *)
C2_NoNegativeBalance ==
    /\ tokens.connection >= 0
    /\ \A p \in DOMAIN tokens.playerId : tokens.playerId[p] >= 0

(* Two calls were suspended; the first has been resumed and granted in     *)
(* this step, and what is left does not cover the one still suspended.     *)
C2_Witness ==
    /\ returned = "NoError"
    /\ calls[1].pc = "idle"
    /\ calls[2].pc = "delay"
    /\ ~hasEnoughTokens(tokens, calls[2].playerId, TokenCost(calls[2].op))

(* C3: a non-blocking call that finds exactly one scope below the amount   *)
(* reports that scope: NotEnoughConnectionTokens when only the connection  *)
(* balance is short, NotEnoughPlayerIdTokens when only the identity's is.  *)
C3_DeficientScopeReported ==
    [][\A p \in PlayerIds, op \in Requests :
        LET n == TokenCost(op) IN
        consumeTokens(p, op, FALSE) =>
            /\ (tokens.connection < n /\ Balance(tokens, p) >= n)
                    => returned' = "NotEnoughConnectionTokens"
            /\ (tokens.connection >= n /\ Balance(tokens, p) < n)
                    => returned' = "NotEnoughPlayerIdTokens"]_vars

DebitedExactly(playerId, n) ==
    /\ tokens'.connection = tokens.connection - n
    /\ DOMAIN tokens'.playerId = DOMAIN tokens.playerId \cup {playerId}
    /\ tokens'.playerId[playerId] = Balance(tokens, playerId) - n
    /\ \A q \in DOMAIN tokens.playerId \ {playerId} :
            tokens'.playerId[q] = tokens.playerId[q]
    /\ tokens'.serverPairing = tokens.serverPairing

(* C5: a granted consumeTokens(identity, amount) lowers the connection     *)
(* balance and that identity's balance by exactly amount in one step and   *)
(* leaves every other identity's balance and the pairing balance as they   *)
(* were; the amount of getInfo is 1 token.                                 *)
C5_GrantDebitsExactly ==
    [][/\ \A p \in PlayerIds, op \in Requests, w \in BOOLEAN :
            (consumeTokens(p, op, w) /\ returned' = "NoError")
                => DebitedExactly(p, IF op = "getInfo" THEN 1 * TokenScale
                                     ELSE TokenCost(op))
       /\ \A c \in Calls :
            (consumeTokensResume(c) /\ returned' = "NoError")
                => DebitedExactly(calls[c].playerId,
                                  IF calls[c].op = "getInfo" THEN 1 * TokenScale
                                  ELSE TokenCost(calls[c].op))]_vars

(* getInfo has just been granted to player1 while player2 is known: 49     *)
(* connection tokens, 24 tokens of player1, player2 still at 25.           *)
C5_Witness ==
    /\ returned = "NoError"
    /\ DOMAIN tokens.playerId = {"player1", "player2"}
    /\ tokens.connection = MAX_REQUESTS_PER_IP_ADDRESS - 1 * TokenScale
    /\ tokens.playerId["player1"] = MAX_REQUESTS_PER_PLAYER_ID - 1 * TokenScale
    /\ tokens.playerId["player2"] = MAX_REQUESTS_PER_PLAYER_ID

(* The ledger is as it was, but for entries of identities not seen before, *)
(* which are at the ceiling.                                               *)
NothingDebited ==
    /\ tokens'.connection = tokens.connection
    /\ tokens'.serverPairing = tokens.serverPairing
    /\ DOMAIN tokens.playerId \subseteq DOMAIN tokens'.playerId
    /\ \A q \in DOMAIN tokens'.playerId :
            tokens'.playerId[q] = Balance(tokens, q)

(* C6: a consumeTokens call that returns anything but NoError has lowered  *)
(* no balance, neither in the step in which it returns nor in a step in    *)
(* which it suspends; at most it has added an entry, at the ceiling, for   *)
(* an identity not seen before.                                            *)
C6_FailureDebitsNothing ==
    [][/\ \A p \in PlayerIds, op \in Requests, w \in BOOLEAN :
            (consumeTokens(p, op, w) /\ returned' # "NoError")
                => NothingDebited
       /\ \A c \in Calls :
            (consumeTokensResume(c) /\ returned' # "NoError")
                => NothingDebited]_vars

(* A blocking call has just timed out while the interval timer runs. *)
C6_Witness ==
    /\ returned = "WaitReplenishTimeout"
    /\ replenishInterval = "active"

(* C7: a blocking call always terminates; resumed with both balances       *)
(* sufficient it returns NoError, it returns WaitReplenishTimeout only     *)
(* with timeoutMs elapsed and tokens insufficient, and it returns nothing  *)
(* else.                                                                   *)
C7_BlockingCallTerminates ==
    /\ \A c \in Calls : (calls[c].pc = "delay") ~> (calls[c].pc = "idle")
    /\ [][/\ \A p \in PlayerIds, op \in Requests :
                consumeTokens(p, op, TRUE)
                    => returned' \in {"none", "NoError", "WaitReplenishTimeout"}
          /\ \A c \in Calls :
                LET p == calls[c].playerId
                    n == TokenCost(calls[c].op)
                IN consumeTokensResume(c) =>
                    /\ returned' \in {"none", "NoError", "WaitReplenishTimeout"}
                    /\ hasEnoughTokens(tokens, p, n) => returned' = "NoError"
                    /\ returned' = "WaitReplenishTimeout" =>
                            /\ calls[c].elapsed >= ConsumeTimeoutMs
                            /\ ~hasEnoughTokens(tokens, p, n)
                    /\ (calls[c].elapsed >= ConsumeTimeoutMs
                            /\ ~hasEnoughTokens(tokens, p, n))
                        => returned' = "WaitReplenishTimeout"]_vars

(* A blocking call has just timed out with no interval timer running. *)
C7_Witness ==
    /\ returned = "WaitReplenishTimeout"
    /\ replenishInterval # "active"
    /\ leakedIntervals = 0

(* C8: the first call for an identity that has no entry gives it an entry  *)
(* at the ceiling before checking and debiting: after a granted first call *)
(* of amount a its balance is 25 - a.                                      *)
C8_FirstCallStartsAtCeiling ==
    [][\A p \in PlayerIds, op \in Requests, w \in BOOLEAN :
        (consumeTokens(p, op, w) /\ p \notin DOMAIN tokens.playerId)
            => /\ p \in DOMAIN tokens'.playerId
               /\ returned' = "NoError"
               /\ tokens'.playerId[p] =
                        MAX_REQUESTS_PER_PLAYER_ID - TokenCost(op)]_vars

(* The first call of all was getMap by player2: its balance is 20. *)
C8_Witness ==
    /\ returned = "NoError"
    /\ DOMAIN tokens.playerId = {"player2"}
    /\ tokens.playerId["player2"] =
            MAX_REQUESTS_PER_PLAYER_ID - REQUEST_GET_MAP_TOKEN_COST

(***************************************************************************)
(* Properties of the requests and responses.                               *)
(***************************************************************************)
InFlight(r) == reqs[r].state = "pending"

(* C9: getNextSeq never returns a sequence number that has an entry in the *)
(* pending table, and the requests in flight at the same time hold         *)
(* pairwise distinct sequence numbers, each with its own entry.            *)
C9_SequenceNumbersDistinct ==
    /\ [](\A r \in RequestIds : InFlight(r) =>
            /\ reqs[r].seq \in DOMAIN seqCallbacks
            /\ seqCallbacks[reqs[r].seq] = r
            /\ \A q \in RequestIds \ {r} :
                    InFlight(q) => reqs[q].seq # reqs[r].seq)
    /\ [][\A r \in RequestIds :
            (reqs[r].state = "unused" /\ reqs'[r].state # "unused")
                => reqs'[r].seq \notin DOMAIN seqCallbacks]_vars

(* MaxRequests requests are in flight at once. *)
C9_Witness ==
    /\ \A r \in RequestIds : InFlight(r)
    /\ Cardinality(DOMAIN seqCallbacks) = MaxRequests

(* C10: the entry of a request sent with sendRequestAsync is removed once, *)
(* by its response or by its timer, whichever comes first, and its promise *)
(* is resolved once: neither a response after the timer nor the timer      *)
(* after a response resolves it or calls its handler a second time.        *)
C10_RemovedAndResolvedOnce ==
    \A r \in RequestIds : reqs[r].kind = "async" =>
        /\ reqs[r].resolved <= 1 /\ reqs[r].invoked <= 1 /\ reqs[r].removed <= 1
        /\ InFlight(r) =>
                /\ reqs[r].resolved = 0 /\ reqs[r].removed = 0
                /\ reqs[r].timer = "armed"
                /\ reqs[r].seq \in DOMAIN seqCallbacks
        /\ (reqs[r].state = "done" /\ reqs[r].by = "response") =>
                /\ reqs[r].resolved = 1 /\ reqs[r].removed = 1
                /\ reqs[r].invoked = 1 /\ reqs[r].timer = "cleared"
        /\ (reqs[r].state = "done" /\ reqs[r].by = "timeout") =>
                /\ reqs[r].resolved = 1 /\ reqs[r].removed = 1
                /\ reqs[r].invoked = 0 /\ reqs[r].timer = "fired"

(* A request was resolved by its timer and its response came afterwards. *)
C10_Witness ==
    \E r \in RequestIds :
        /\ reqs[r].kind = "async"
        /\ reqs[r].by = "timeout"
        /\ reqs[r].unmatched = 1
        /\ reqs[r].resolved = 1

(* A response to a request whose timer has fired. *)
Late(msg) ==
    /\ msg.kind = "response"
    /\ \E r \in RequestIds : reqs[r].by = "timeout" /\ reqs[r].seq = msg.seq

(* C11: a response that arrives after the timer of its request has fired   *)
(* reaches no handler, neither that of the request timed out nor that of a *)
(* later request: no request is called or resolved by it, and it is        *)
(* emitted as a 'message' event with handled = false and no 'error' event. *)
C11_LateResponseUnhandled ==
    [][\A msg \in Messages, throws \in BOOLEAN :
        (onMessage(msg, throws) /\ Late(msg)) =>
            /\ emitted' = <<"message:unhandled">>
            /\ seqCallbacks' = seqCallbacks
            /\ \A q \in RequestIds :
                    /\ reqs'[q].invoked = reqs[q].invoked
                    /\ reqs'[q].resolved = reqs[q].resolved]_vars

(* The response to a request that timed out has just arrived while a later *)
(* request is in flight.                                                   *)
C11_Witness ==
    /\ emitted = <<"message:unhandled">>
    /\ \E r, q \in RequestIds :
            /\ reqs[r].by = "timeout" /\ reqs[r].unmatched = 1
            /\ r < q /\ InFlight(q) /\ reqs[q].invoked = 0

(* C12: when sendRequest returns an Error (WebSocket not open, invalid     *)
(* request, toBinary or ws.send throwing) the table holds no entry for the *)
(* sequence number of the call and is as it was before, and no 'request'   *)
(* event is emitted; for sendRequestAsync the timer of the call is         *)
(* cancelled and the promise is resolved, once, with that Error.           *)
C12_FailedSendLeavesNothing ==
    [][\A r \in RequestIds :
        (reqs[r].state = "unused" /\ reqs'[r].by = "error") =>
            /\ reqs'[r].seq \notin DOMAIN seqCallbacks'
            /\ seqCallbacks' = seqCallbacks
            /\ emitted' = <<>>
            /\ reqs'[r].state = "done"
            /\ reqs'[r].kind = "async" =>
                    /\ reqs'[r].timer = "cleared"
                    /\ reqs'[r].resolved = 1]_vars

(* A sendRequestAsync call failed after the WebSocket check, with another  *)
(* request in flight.                                                      *)
C12_Witness ==
    /\ ws = "OPEN"
    /\ emitted = <<>>
    /\ \E r, q \in RequestIds :
            /\ reqs[r].by = "error" /\ reqs[r].kind = "async"
            /\ reqs[r].seq > 0 /\ reqs[r].timer = "cleared"
            /\ q < r /\ InFlight(q)

(* C13: a message whose response matches a pending entry has that entry's  *)
(* handler called, once, and the entry removed, also when the handler      *)
(* throws; the throw is emitted as an 'error' event of type Callback and   *)
(* the listener still runs to its end, emitting 'message'; no handler is   *)
(* ever called twice, and later messages are dispatched in the same way.   *)
C13_ThrowingHandlerIsolated ==
    /\ [](\A r \in RequestIds : reqs[r].invoked <= 1)
    /\ [][\A msg \in Messages, throws \in BOOLEAN :
            (onMessage(msg, throws) /\ Matches(seqCallbacks, msg)) =>
                LET r == seqCallbacks[msg.seq]
                IN /\ reqs'[r].invoked = reqs[r].invoked + 1
                   /\ msg.seq \notin DOMAIN seqCallbacks'
                   /\ reqs'[r].state = "done"
                   /\ throws => emitted' = <<"error:Callback", "message:unhandled">>
                   /\ ~throws => emitted' = <<"message:handled">>]_vars

(* A handler threw, and the response to a later request has just been     *)
(* delivered to its handler.                                              *)
C13_Witness ==
    /\ emitted = <<"message:handled">>
    /\ \E r, q \in RequestIds :
            /\ reqs[r].threw /\ reqs[r].invoked = 1
            /\ reqs[r].seq \notin DOMAIN seqCallbacks
            /\ r < q /\ reqs[q].by = "response" /\ reqs[q].invoked = 1

IsMessageEvent(e) == e \in {"message:handled", "message:unhandled"}

(* C14: every message that was decoded is emitted as exactly one 'message' *)
(* event; its handled flag is true exactly when the message carried a      *)
(* response that matched a pending entry whose handler did not throw.      *)
C14_OneMessageEvent ==
    [][\A msg \in Messages, throws \in BOOLEAN :
        (onMessage(msg, throws) /\ msg.kind # "garbage") =>
            /\ Len(SelectSeq(emitted', IsMessageEvent)) = 1
            /\ IF Matches(seqCallbacks, msg) /\ ~throws
               THEN SelectSeq(emitted', IsMessageEvent) = <<"message:handled">>
               ELSE SelectSeq(emitted', IsMessageEvent) = <<"message:unhandled">>]_vars

(* A handler has just thrown: its message is emitted with handled = false, *)
(* after the 'error' event.                                                *)
C14_Witness ==
    /\ emitted = <<"error:Callback", "message:unhandled">>
    /\ \E r \in RequestIds : reqs[r].threw /\ reqs[r].state = "done"

(***************************************************************************)
(* Properties of getInfoAsync.                                             *)
(***************************************************************************)
(* The time from the call of getInfoAsync to where it is now. *)
ApiAge == api.waited + api.timer

(* C15 as claimed: getInfoAsync with timeoutMs = T resolves no later than  *)
(* T after its call, also when it first waits for tokens.                  *)
C15_ResolvesWithinTimeout ==
    api.pc = "done" => ApiAge <= REQUEST_GET_INFO_TIMEOUT_MS

(* C15 as amended: getInfoAsync resolves no later than T after it called   *)
(* sendRequestAsync, which it does after a wait for tokens of at most the  *)
(* 10000 ms of consumeTokens: no later than 10000 ms + T after its call.   *)
C15_ResolvesWithinBothTimeouts ==
    api.pc = "done" =>
        /\ api.timer <= REQUEST_GET_INFO_TIMEOUT_MS
        /\ api.waited <= ConsumeTimeoutMs
        /\ ApiAge <= ConsumeTimeoutMs + REQUEST_GET_INFO_TIMEOUT_MS

(* getInfoAsync waited for tokens, sent its request and was resolved by    *)
(* the timer of sendRequestAsync, later than T after its call.             *)
C15_Witness ==
    /\ api.pc = "done"
    /\ api.waited > 0
    /\ api.timer = REQUEST_GET_INFO_TIMEOUT_MS
    /\ reqs[api.r].by = "timeout"

(***************************************************************************)
(* Properties of disconnect().                                             *)
(***************************************************************************)
(* C16: disconnect() does not wait for pending requests: it leaves the     *)
(* table and every timer as they are and resumes after its delay whatever  *)
(* is pending; a request of sendRequestAsync pending when disconnect() is  *)
(* called is resolved afterwards, by its own timer and by nothing else,    *)
(* and its entry is removed then.                                          *)
C16_DisconnectLeavesTimers ==
    /\ [][disconnect =>
            /\ seqCallbacks' = seqCallbacks
            /\ \A r \in RequestIds :
                    /\ reqs'[r].state = reqs[r].state
                    /\ reqs'[r].timer = reqs[r].timer
                    /\ reqs'[r].resolved = reqs[r].resolved]_vars
    /\ [](pendingDisconnects > 0 => ENABLED disconnectResume)
    /\ [](\A r \in RequestIds :
            (reqs[r].cutOff /\ reqs[r].kind = "async") =>
                IF reqs[r].state = "done"
                THEN /\ reqs[r].by = "timeout" /\ reqs[r].timer = "fired"
                     /\ reqs[r].resolved = 1 /\ reqs[r].removed = 1
                     /\ reqs[r].invoked = 0
                     /\ reqs[r].seq \notin DOMAIN seqCallbacks
                ELSE /\ reqs[r].timer = "armed" /\ reqs[r].resolved = 0
                     /\ reqs[r].seq \in DOMAIN seqCallbacks)
    /\ \A r \in RequestIds :
            (reqs[r].cutOff /\ reqs[r].kind = "async") ~> (reqs[r].state = "done")

(* Two requests were pending at disconnect(); disconnect() has resumed and *)
(* one of them has been resolved by its timer, the other is still pending. *)
C16_Witness ==
    /\ ws = "null"
    /\ pendingDisconnects = 0
    /\ \E r, q \in RequestIds :
            /\ reqs[r].cutOff /\ reqs[r].kind = "async" /\ reqs[r].by = "timeout"
            /\ reqs[q].cutOff /\ reqs[q].kind = "async" /\ InFlight(q)

C18_WindowIsFifo ==
    LET n == Min(camera.received, CameraWindow)
    IN /\ Len(camera.cameraRays) <= CameraWindow
       /\ camera.cameraRays = [i \in 1..n |-> camera.received - n + i]

(* Twelve frames have arrived: the window holds the frames 3 to 12. *)
C18_Witness ==
    /\ camera.received = CameraWindow + 2
    /\ Len(camera.cameraRays) = CameraWindow
    /\ camera.cameraRays[1] = 3
    /\ camera.cameraRays[CameraWindow] = CameraWindow + 2

(* C19: in every state, isSubscribed = false implies that the window is    *)
(* empty and cameraSubscribeInfo is null; every step that clears the flag  *)
(* clears the window and the dimensions in the same step.                  *)
C19_UnsubscribedIsCleared ==
    /\ [](~camera.isSubscribed =>
            (camera.cameraRays = <<>> /\ camera.cameraSubscribeInfo = "null"))
    /\ [][(camera.isSubscribed /\ ~camera'.isSubscribed) =>
            (camera'.cameraRays = <<>>
                /\ camera'.cameraSubscribeInfo = "null")]_vars

(* unsubscribe() has returned, after its await of cameraUnsubscribeAsync,  *)
(* while the client is connected.                                          *)
C19_Witness ==
    /\ ~camera.isSubscribed
    /\ camera.cameraRays = <<>>
    /\ camera.cameraSubscribeInfo = "null"
    /\ emitted = <<"unsubscribed">>
    /\ ~camera.cut
    /\ ws = "OPEN"

(* C20: when 'disconnected' fires on a subscribed camera, the flag, the    *)
(* window and the dimensions are cleared in that step, and until a later   *)
(* subscribe() succeeds no message is added to the window or starts a      *)
(* render.                                                                 *)
C20_DisconnectedClearsCamera ==
    /\ [](camera.cut =>
            /\ ~camera.isSubscribed
            /\ camera.cameraRays = <<>>
            /\ camera.cameraSubscribeInfo = "null")
    /\ [][(~camera.cut /\ camera'.cut) =>
            /\ camera.isSubscribed
            /\ emitted'[1] \in {"connecting", "disconnected"}
            /\ "disconnected" \in {emitted'[i] : i \in DOMAIN emitted'}]_vars
    /\ [][(camera.cut /\ camera'.cut) =>
            /\ camera'.rendering <= camera.rendering
            /\ camera'.cameraRays = <<>>]_vars

(* 'disconnected' fired on a camera holding a full window; the client has  *)
(* connected again and a message has just been emitted to the camera.      *)
C20_Witness ==
    /\ camera.cut
    /\ ws = "OPEN"
    /\ emitted = <<"message:unhandled">>
    /\ camera.cameraRays = <<>>

(***************************************************************************)
(* Properties of renderCameraFrame.                                        *)
(***************************************************************************)
(* The frames that the last render decoded. *)
DecodedFrames == DOMAIN camera.render.decoded

(* C21: for every ray byte buffer the decoder reads no byte at an index    *)
(* that is not below the length of the buffer.                             *)
C21_NoReadPastEnd ==
    \A k \in DecodedFrames :
        camera.render.decoded[k].lastRead < Len(camera.render.frames[k].rayData)

(* C22: rendering does not raise, whatever bytes the frames hold.          *)
C22_RenderNeverRaises == ~camera.render.raised

(* C23: every sample that the decoder produces has its horizontal          *)
(* component in 0..1023, its vertical component in 0..63 and its material  *)
(* index in 0..7.                                                          *)
C23_SamplesInRange ==
    \A k \in DecodedFrames :
        \A n \in DOMAIN camera.render.decoded[k].samples :
            LET sample == camera.render.decoded[k].samples[n]
            IN /\ sample[1] \in 0..1023
               /\ sample[2] \in 0..63
               /\ sample[3] \in 0..7

(* The encodings of sequences of triples, each followed by 0 or 1 byte. *)
Encodings ==
    {[triples |-> ts, rayData |-> EncodeAll(ts) \o tr] :
        ts \in TripleSeqs, tr \in Trailing}

(* C24: a frame that holds the 4-byte marker forms of a sequence of        *)
(* triples (h, v, m), followed by 0 or 1 byte, is decoded to exactly these *)
(* triples in order, and no byte past its end is read.                     *)
C24_RoundTrip ==
    \A k \in DecodedFrames :
        \A e \in Encodings :
            camera.render.frames[k].rayData = e.rayData
                => /\ camera.render.decoded[k].samples = e.triples
                   /\ camera.render.decoded[k].lastRead < Len(e.rayData)

(* Two triples with every bit of h, v and m in use and one trailing byte   *)
(* have been decoded.                                                      *)
C24_Witness ==
    /\ camera.render.called = 1
    /\ camera.render.frames[1].rayData
            = EncodeAll(<<<<1023, 63, 255>>, <<515, 0, 8>>>>) \o <<255>>
    /\ camera.render.decoded[1].samples = <<<<1023, 63, 255>>, <<515, 0, 8>>>>

(* The positions held by the sample-position table of the last render. *)
TablePositions ==
    {<<Get(camera.render.samplePositionBuffer, 2 * k),
       Get(camera.render.samplePositionBuffer, 2 * k + 1)>> :
        k \in 0..(camera.render.width * camera.render.height - 1)}

(* C25: after the shuffle the table of width * height entries holds every  *)
(* position (x, y) of the raster, hence each exactly once, and the number  *)
(* drawn by nextInt(R + 1) at each turn R lies in 0..R.                    *)
C25_TableIsBijection ==
    camera.render.called > 0 =>
        /\ Len(camera.render.samplePositionBuffer)
                = 2 * camera.render.width * camera.render.height
        /\ TablePositions
                = (0..(camera.render.width - 1)) \X (0..(camera.render.height - 1))
        /\ \A n \in DOMAIN camera.render.partners :
                camera.render.partners[n]
                    \in 0..(camera.render.width * camera.render.height - n)

(* A raster of 3 x 3 has been shuffled, and the shuffle moved a position. *)
C25_Witness ==
    /\ camera.render.width = 3 /\ camera.render.height = 3
    /\ Len(camera.render.partners) = 8
    /\ camera.render.samplePositionBuffer # populate(3, 3, 0)

(* C26: two renders of the same width and height have the same              *)
(* sample-position table, whatever was rendered before and whatever the    *)
(* frames were.                                                            *)
C26_TableDependsOnSizeOnly ==
    \A a, b \in camera.render.tables :
        (a.width = b.width /\ a.height = b.height)
            => a.samplePositionBuffer = b.samplePositionBuffer

(* A raster of 3 x 3 has been rendered twice, with different frames. *)
C26_Witness ==
    /\ camera.render.called = 2
    /\ \E a, b \in camera.render.tables :
            /\ a.width = 3 /\ a.height = 3 /\ b.width = 3 /\ b.height = 3
            /\ a.frames # b.frames

(***************************************************************************)
(* Properties of zoom(), shoot(), reload() and getAppResponseError().      *)
(***************************************************************************)
(* C27: zoom() sends camera input only when the Camera is subscribed to a  *)
(* PTZ camera, shoot() and reload() only when it is subscribed to an auto  *)
(* turret; otherwise they return false and send nothing.  What is sent is  *)
(* first the press (RELOAD for reload(), else FIRE_PRIMARY), then, once    *)
(* the press has resolved, the release (NONE), and nothing else.           *)
C27_PressThenRelease ==
    /\ [](LET c == camera.control
              press == IF c.op = "reload" THEN "RELOAD" ELSE "FIRE_PRIMARY"
          IN /\ c.inputs \in {<<>>, <<press>>, <<press, "NONE">>}
             /\ c.returned = "false" => c.inputs = <<>>
             /\ c.returned = "true" => c.inputs = <<press, "NONE">>
             /\ Len(c.inputs) = 2 => Len(c.results) >= 1
             /\ c.pc = "done" => c.returned \in {"true", "false"})
    /\ [][\A op \in {"zoom", "shoot", "reload"} :
            cameraControl(op) =>
                LET type == IF op = "zoom" THEN "PTZ_CCTV_CAMERA"
                            ELSE "AUTO_TURRET"
                    valid == camera.isSubscribed /\ camera.cameraType = type
                IN /\ valid => /\ Len(camera'.control.inputs) = 1
                               /\ camera'.control.returned = "none"
                   /\ ~valid => /\ camera'.control.inputs = <<>>
                                /\ camera'.control.returned = "false"]_vars

(* reload() on an auto turret has sent RELOAD, then NONE, and returned. *)
C27_Witness ==
    /\ camera.isSubscribed /\ camera.cameraType = "AUTO_TURRET"
    /\ camera.control.op = "reload" /\ camera.control.pc = "done"
    /\ camera.control.inputs = <<"RELOAD", "NONE">>
    /\ Len(camera.control.results) = 2

(* C28: zoom(), shoot() and reload() resolve true only when both camera    *)
(* inputs, the press and the release, were answered without an error.      *)
C28_TrueOnlyWhenBothSucceeded ==
    camera.control.returned = "true"
        => camera.control.results = <<"AppResponse", "AppResponse">>

(* The members of the enum AppResponseError. *)
AppResponseErrors ==
    {"NoError", "Unknown", "ServerError", "Banned", "RateLimit", "NotFound",
     "WrongType", "NoTeam", "NoClan", "NoMap", "NoCamera", "NoPlayer",
     "AccessDenied", "PlayerOnline", "InvalidPlayerid", "InvalidId",
     "InvalidMotd", "TooManySubscribers", "NotEnabled", "MessageNotSent"}

(* C29: getAppResponseError returns a member of the enum for every         *)
(* response: NoError exactly when the response has no error, Unknown for   *)
(* every tag that is not one of the 18 recognized ones, and for each       *)
(* recognized tag a member of its own, different from that of every other  *)
(* recognized tag.                                                         *)
C29_ErrorMappingTotal ==
    [][\A response \in SubscribeResponses :
        (cameraSubscribeReturn(response) /\ isValidAppResponse(response)) =>
            LET e == camera'.appResponseError
            IN /\ e \in AppResponseErrors
               /\ (e = "NoError") <=> (response.error = <<>>)
               /\ (e = "Unknown") <=>
                    (response.error # <<>>
                        /\ response.error[1] \notin RecognizedTags)
               /\ \A tag \in RecognizedTags :
                    (response.error # <<>> /\ response.error[1] # tag)
                        => getAppResponseError(AppResponse(<<tag>>, 0)) # e]_vars

(* subscribe() has been answered with the tag no_team. *)
C29_Witness ==
    /\ camera.appResponseError = "NoTeam"
    /\ ~camera.isSubscribed

(***************************************************************************)
(* Properties of connect() on a client that holds a WebSocket.             *)
(***************************************************************************)
(* C30: connect() on a client that holds a WebSocket ends with the new     *)
(* WebSocket installed: the continuation of the disconnect() it called,    *)
(* run while the new WebSocket is held, leaves this.ws what it is.         *)
C30_ReconnectKeepsNewSocket ==
    [][(disconnectResume /\ ws \in {"CONNECTING", "OPEN"}) => ws' = ws]_vars

(***************************************************************************)
(* Properties of the callback-style API operations.                        *)
(***************************************************************************)
(* A call of op by player1 with argument arg that finds the WebSocket open *)
(* and both balances sufficient, while toBinary and ws.send do not throw.  *)
SentWhenValid(op, arg) ==
    \A w \in BOOLEAN, r \in RequestIds :
        (/\ callbackOperation("player1", op, arg, w, r, "none")
         /\ ws = "OPEN"
         /\ hasEnoughTokens(InitPlayerId(tokens, "player1"), "player1",
                            TokenCost(op)))
            => /\ returned' = "NoError"
               /\ tokens' = Debit(InitPlayerId(tokens, "player1"), "player1",
                                  TokenCost(op))
               /\ reqs'[r].state = "pending"
               /\ reqs'[r].seq \in DOMAIN seqCallbacks'
               /\ reqs'[r].seq \in wire'
               /\ emitted' = <<"request">>

(* C31: getNexusAuth called with a string appKey on an open connection     *)
(* with sufficient tokens consumes its tokens and then sends the request:  *)
(* the request passes isValidAppRequest, is handed to the transport and a  *)
(* 'request' event is emitted; no validation Error is returned.            *)
C31_NexusAuthRequestIsSent == [][SentWhenValid("getNexusAuth", JsString)]_vars

(***************************************************************************)
(* Further properties of the requests and responses.                       *)
(***************************************************************************)
(* C32: for any requests in flight at the same time and any arrival order  *)
(* of their responses, a response with sequence number s is passed, in the *)
(* step in which it arrives, to the handler of the request in flight under *)
(* s and to no other handler; a message that is no response reaches none.  *)
C32_ResponseReachesItsHandler ==
    [][\A msg \in Messages, throws \in BOOLEAN :
        onMessage(msg, throws) =>
            \A r \in RequestIds :
                /\ reqs'[r].invoked # reqs[r].invoked =>
                        /\ msg.kind = "response"
                        /\ reqs[r].seq = msg.seq
                        /\ Matches(seqCallbacks, msg)
                        /\ seqCallbacks[msg.seq] = r
                        /\ reqs'[r].invoked = reqs[r].invoked + 1
                /\ (InFlight(r) /\ msg.kind = "response"
                        /\ reqs[r].seq = msg.seq) =>
                            reqs'[r].invoked = reqs[r].invoked + 1]_vars

(* Two requests are in flight and the response to the later one arrived    *)
(* first: its handler was called, the earlier request is still waiting.    *)
C32_Witness ==
    \E r, q \in RequestIds :
        /\ InFlight(r)
        /\ reqs[r].invoked = 0
        /\ reqs[r].seq \in wire
        /\ reqs[q].seq > reqs[r].seq
        /\ reqs[q].invoked = 1
        /\ reqs[q].by = "response"
        /\ emitted = <<"message:handled">>

(* The sequence numbers getNextSeq can hand out in one behaviour. *)
SequenceNumbers == 1..MaxRequests

(* C33: every entry placed in the pending table is eventually destroyed,   *)
(* by a matching response or by the expiry of a timer, also when it was    *)
(* registered through the callback-style sendRequest and no response ever  *)
(* arrives.                                                                *)
C33_EntriesEventuallyDestroyed ==
    \A n \in SequenceNumbers :
        (n \in DOMAIN seqCallbacks) ~> (n \notin DOMAIN seqCallbacks)

(***************************************************************************)
(* Further properties of renderCameraFrame.                                *)
(***************************************************************************)
(* The turns of the `while (true)` loop over rayData from the decoder d    *)
(* on: the decoder before and after each.                                  *)
RECURSIVE Turns(_, _)
TurnsAfter(rayData, d, a) ==
    <<[before |-> d, after |-> a]>> \o Turns(rayData, a)

Turns(rayData, d) ==
    IF decode(rayData, d) = d THEN <<>>
    ELSE TurnsAfter(rayData, d, decodeSample(rayData, d))

(* The turn stored the triple in the slot of the formula and produced it   *)
(* as its sample.                                                          *)
FullWrite(turn, triple, slot) ==
    /\ slot \in 0..63
    /\ turn.after.rayLookback
            = [turn.before.rayLookback EXCEPT ![slot] = triple]
    /\ turn.after.samples = Append(turn.before.samples, triple)

SlotOf(triple) ==
    (3 * (triple[1] \div 128) + 5 * (triple[2] \div 16) + 7 * triple[3]) % 64

FullWriteTurn(rayData, turn, dp, n) ==
    /\ (n = 255 /\ dp + 4 <= Len(rayData)) =>
            FullWrite(turn,
                      <<rayData[dp + 2] * 4 + (rayData[dp + 3] \div 64),
                        rayData[dp + 3] % 64, rayData[dp + 4]>>,
                      SlotOf(<<rayData[dp + 2] * 4 + (rayData[dp + 3] \div 64),
                               rayData[dp + 3] % 64, rayData[dp + 4]>>))
    /\ (n \in 192..254 /\ dp + 3 <= Len(rayData)) =>
            /\ turn.after.samples # <<>>
            /\ turn.after.samples[Len(turn.after.samples)][3] = n % 64
            /\ FullWrite(turn, turn.after.samples[Len(turn.after.samples)],
                         SlotOf(turn.after.samples[Len(turn.after.samples)]))

FullWriteTurns(rayData, turns) ==
    \A j \in DOMAIN turns :
        FullWriteTurn(rayData, turns[j], turns[j].before.dataPointer,
                      rayData[turns[j].before.dataPointer + 1])

(* C34: both full-write forms, when their bytes lie in the buffer, store   *)
(* the decoded triple in look-back slot                                    *)
(* (3*(horizontal div 128) + 5*(vertical div 16) + 7*material) mod 64,     *)
(* which lies in 0..63: the 0xFF marker with bytes (b1, b2, b3) gives      *)
(* horizontal = (b1<<2)|(b2>>6), vertical = b2 & 0x3F, material = b3; the  *)
(* 11 opcode takes material from the low 6 bits of its leading byte and    *)
(* uses the same slot formula.                                             *)
C34_FullWriteSlot ==
    \A k \in DecodedFrames :
        FullWriteTurns(camera.render.frames[k].rayData,
                       Turns(camera.render.frames[k].rayData, NewDecoder))

(* 0xFF, 0b01000000, 0b00111111, 5 has been decoded to (256, 63, 5), which *)
(* the formula puts in slot 56.                                            *)
C34_Witness ==
    /\ camera.render.called = 1
    /\ camera.render.frames[1].rayData = <<255, 64, 63, 5>>
    /\ camera.render.decoded[1].samples = <<<<256, 63, 5>>>>
    /\ SlotOf(<<256, 63, 5>>) = 56
    /\ decode(<<255, 64, 63, 5>>, NewDecoder).rayLookback[56] = <<256, 63, 5>>

(* The turns of the loop that start at a leading byte whose top two bits   *)
(* are 11 and which is not 0xFF.                                           *)
IsOpcode11(rayData, turn) ==
    rayData[turn.before.dataPointer + 1] \in 192..254

Consumes(rayData, turns, count) ==
    \A j \in DOMAIN turns :
        IsOpcode11(rayData, turns[j]) =>
            /\ turns[j].after.dataPointer
                    = turns[j].before.dataPointer + count
            /\ turns[j].after.lastRead
                    = turns[j].before.dataPointer + count - 1

(* The sample of opcode 11 as the decoder builds it from the two bytes A   *)
(* and F that follow the leading byte n.                                   *)
Opcode11Sample(n, A, F) == <<A * 4 + (F \div 64), F % 64, n % 64>>

SampleFromTwoBytes(rayData, turns) ==
    \A j \in DOMAIN turns :
        (IsOpcode11(rayData, turns[j])
            /\ turns[j].before.dataPointer + 3 <= Len(rayData)) =>
                turns[j].after.samples
                    = Append(turns[j].before.samples,
                             Opcode11Sample(
                                rayData[turns[j].before.dataPointer + 1],
                                rayData[turns[j].before.dataPointer + 2],
                                rayData[turns[j].before.dataPointer + 3]))

(* C35: for a leading byte whose top two bits are 11 and which is not 0xFF *)
(* the decoder reads exactly 1 more byte, so that the sample consumes 2    *)
(* bytes of the stream in total.                                           *)
C35_Opcode11ConsumesTwoBytes ==
    \A k \in DecodedFrames :
        Consumes(camera.render.frames[k].rayData,
                 Turns(camera.render.frames[k].rayData, NewDecoder), 2)

(* C35 as amended: for such a leading byte n the decoder reads exactly 2   *)
(* more bytes A and F, so that the sample consumes 3 bytes in total, and   *)
(* when they lie in the buffer the sample is horizontal = (A<<2)|(F>>6),   *)
(* vertical = F & 63, material = n & 63: the leading byte gives only the   *)
(* material.                                                               *)
C35_Opcode11ConsumesThreeBytes ==
    \A k \in DecodedFrames :
        /\ Consumes(camera.render.frames[k].rayData,
                    Turns(camera.render.frames[k].rayData, NewDecoder), 3)
        /\ SampleFromTwoBytes(camera.render.frames[k].rayData,
                    Turns(camera.render.frames[k].rayData, NewDecoder))

(* The three bytes 0xC5, 0b01000000, 0b00111111 have been decoded to the   *)
(* one sample (256, 63, 5) and the last byte read is the third.            *)
C35_Witness ==
    /\ camera.render.called = 1
    /\ camera.render.frames[1].rayData = <<197, 64, 63>>
    /\ camera.render.decoded[1].samples = <<<<256, 63, 5>>>>
    /\ camera.render.decoded[1].lastRead = 2

(* The value of sampleOffset with which each of the first count samples of *)
(* a frame indexes the table, the first starting from sampleOffset.        *)
RECURSIVE Cursors(_, _, _, _)
Cursors(sampleOffset, width, height, count) ==
    IF count = 0 THEN <<>>
    ELSE <<reduce(sampleOffset, width, height)>>
            \o Cursors(advance(reduce(sampleOffset, width, height)),
                       width, height, count - 1)

CursorsInTable(samplePositionBuffer, width, height, cursors) ==
    \A j \in DOMAIN cursors :
        /\ cursors[j] % 2 = 0
        /\ cursors[j] \in 0..(2 * width * height - 2)
        /\ cursors[j] + 2 \in DOMAIN samplePositionBuffer
        /\ pixelIndex(samplePositionBuffer, cursors[j], width)
                \in 0..(width * height - 1)
        /\ j > 1 => cursors[j] = (cursors[j - 1] + 2) % (2 * width * height)

(* C36: for every decoded sample of every frame the cursor, which starts   *)
(* at 2 * frame.sampleOffset, is reduced mod 2*width*height before use,    *)
(* the pixel index x + y*width read from the two consecutive table entries *)
(* lies in [0, width*height), and the cursor advances by exactly 2: it is  *)
(* always even and never indexes the table out of range.                   *)
C36_CursorStaysInTable ==
    \A k \in DecodedFrames :
        CursorsInTable(camera.render.samplePositionBuffer,
                       camera.render.width, camera.render.height,
                       Cursors(2 * camera.render.frames[k].sampleOffset,
                               camera.render.width, camera.render.height,
                               Len(camera.render.decoded[k].samples)))

(***************************************************************************)
(* Properties of connect() and disconnect().                               *)
(***************************************************************************)
(* The interval timers that call replenishTask. *)
ActiveIntervals ==
    leakedIntervals + (IF replenishInterval = "active" THEN 1 ELSE 0)

(* C37: at most one replenishment interval timer is active at any time,    *)
(* across any sequence of connect() and disconnect() calls, those that     *)
(* overlap the 100 ms delay of disconnect() included.                      *)
C37_OneReplenishInterval == ActiveIntervals <= 1

(* C38: overlapping disconnect() calls are safe: every continuation that   *)
(* resumes after the 100 ms delay finds this.ws non-null, so that no call  *)
(* dereferences a null WebSocket.                                          *)
C38_ContinuationFindsWebSocket == [][disconnectResume => ws # "null"]_vars

(***************************************************************************)
(* Further properties of the Camera.                                       *)
(***************************************************************************)
(* C39: no 'render' event is emitted while the camera is not subscribed: a *)
(* render started by a frame before unsubscribe(), or before a subscribe() *)
(* that failed, does not emit its image after the subscription state has   *)
(* been cleared.                                                           *)
C39_NoRenderWhenUnsubscribed ==
    [][renderDone => (camera.isSubscribed /\ camera'.isSubscribed)]_vars

(***************************************************************************)
(* Further properties of the callback-style API operations.                *)
(***************************************************************************)
(* C40: tokens are charged only for requests that are handed to the        *)
(* transport: when an API operation returns an Error from sendRequest (the *)
(* WebSocket is not open, the request fails validation or encoding, or     *)
(* ws.send throws), the connection balance and the balance of the identity *)
(* are what they were before the operation was invoked.                    *)
C40_ErrorChargesNothing ==
    [][\A op \in Operations, arg \in Arguments, w \in BOOLEAN,
         r \in RequestIds, f \in SendFaults :
            (callbackOperation("player1", op, arg, w, r, f)
                /\ reqs'[r].by = "error")
                => /\ tokens'.connection = tokens.connection
                   /\ Balance(tokens', "player1") = Balance(tokens, "player1")]_vars

====
